---- MODULE Spec2Model ----
(***************************************************************************)
(* Delta-inference simulation engine, causal attribution and gate          *)
(* retraining (backend/python-gnn/simulation_engine.py,                    *)
(* causal_attribution.py, retrain_gate.py).                                *)
(*                                                                         *)
(* Number representation (exact, no floating point):                       *)
(*   - probabilities and deltas are integers in thousandths                *)
(*     (400 is 0.400, a delta of 5 is 0.005);                              *)
(*   - node features are integers in hundredths (90 is 0.90);               *)
(*   - edge weights are integers in tenths (10 is 1.0);                     *)
(*   - a quotient is a record [n, d] standing for n/d, d > 0;               *)
(*   - a value that involves a square root is a record [sgn, n, d]          *)
(*     standing for sgn * sqrt(n/d).                                        *)
(* Arrays (numpy) are functions on 0..M-1; Python lists are sequences.      *)
(* An optional value is << >> (None) or <<v>>.                              *)
(***************************************************************************)
EXTENDS Integers, Sequences, FiniteSets, TLC

VARIABLES
    x,            \* caller's node-feature matrix  [node -> [column -> value]]
    edge_index,   \* caller's edge list            sequence of <<src, dst>>
    edge_weight,  \* caller's edge weights         sequence
    self,         \* the SimulationEngine object   [_topology_weights]
    request,      \* the call being made           [op, failed_nodes, failure_mode, ...]
    predictor,    \* the predictor port: [kind: which responses it can give,
                  \*   table: its answers so far, a set of [input, response]]
    calls,        \* predictor inputs of the last operation, in call order
    result,       \* what the last operation returned or raised
    pc,           \* "called" (request issued) or "returned"
    history,      \* completed run_simulation calls on this engine, oldest first: [args, result]
    ncalls,       \* number of calls issued on this engine
    files,        \* checkpoint files on disk   [path -> None or Some(weights)]
    locals        \* local variables of the method in progress (GateRetrainer.retrain)

vars == <<x, edge_index, edge_weight, self, request, predictor, calls, result, pc,
          history, ncalls, files, locals>>

----------------------------------------------------------------------------
(* Bounds of the model *)

NumNodes == 3
MaxCalls == 3

----------------------------------------------------------------------------
(* Generic helpers *)

None == << >>
Some(v) == <<v>>

Abs(v) == IF v < 0 THEN -v ELSE v
Min2(a, b) == IF a < b THEN a ELSE b

Size(a) == Cardinality(DOMAIN a)

RECURSIVE SumTo(_, _)
\* sum of f[0..k-1]
SumTo(f, k) == IF k = 0 THEN 0 ELSE f[k - 1] + SumTo(f, k - 1)

\* mutation: the minimum taken where the code takes the maximum
MinOf(S) == CHOOSE m \in S : \A v \in S : m <= v

MaxOf(S) == CHOOSE m \in S : \A v \in S : v <= m

\* Python / numpy index normalisation on an axis of length n
PyIndex(i, n) ==
    IF i >= 0 /\ i < n THEN Some(i)
    ELSE IF i < 0 /\ i >= -n THEN Some(i + n)
    ELSE None

----------------------------------------------------------------------------
(* FailureMode (IntEnum) *)

FailureModes == {"NONE", "DEMAND_LOSS", "SUPPLY_CUT", "CONTAMINATION", "CONTROL_FAILURE"}

----------------------------------------------------------------------------
(* SimulationEngine._compute_topology_weights *)

default_edge_weight == 10

_compute_topology_weights(ei, ew, num_nodes) ==
    LET E == Len(ei)
        w(i) == IF i <= Len(ew) THEN ew[i] ELSE default_edge_weight
        inc[i \in 0..E] ==
            \* degree and weight_sum after the first i edges
            IF i = 0 THEN [degree |-> [n \in 0..(num_nodes - 1) |-> 0],
                           weight_sum |-> [n \in 0..(num_nodes - 1) |-> 0]]
            ELSE LET p == inc[i - 1]
                     src == ei[i][1]
                     dst == ei[i][2]
                     d1 == [p.degree EXCEPT ![src] = @ + 1]
                     d2 == [d1 EXCEPT ![dst] = @ + 1]
                     s1 == [p.weight_sum EXCEPT ![src] = @ + w(i)]
                     s2 == [s1 EXCEPT ![dst] = @ + w(i)]
                 IN [degree |-> d2, weight_sum |-> s2]
        degree == inc[E].degree
        weight_sum == inc[E].weight_sum
        \* avg_weight = weight_sum / degree where degree > 0, else 0;
        \* raw_weights = degree * avg_weight
        raw_weights == [n \in 0..(num_nodes - 1) |->
                           IF degree[n] > 0
                           THEN (degree[n] * weight_sum[n]) \div degree[n]
                           ELSE 0]
        mx == MaxOf({raw_weights[n] : n \in 0..(num_nodes - 1)})
    IN IF mx > 0
       THEN [n \in 0..(num_nodes - 1) |-> [n |-> raw_weights[n], d |-> mx]]
       ELSE [n \in 0..(num_nodes - 1) |-> [n |-> 1, d |-> 2]]

----------------------------------------------------------------------------
(* SimulationEngine._compute_confidence *)

\* label of a confidence n/d
ConfidenceLabel(c) ==
    IF 5 * c.n < c.d THEN "low"          \* confidence < 0.2
    ELSE IF 2 * c.n < c.d THEN "medium"  \* confidence < 0.5
    ELSE "high"

\* mutation: |delta| * topology_weight without the scaling by 2
_compute_confidence_unscaled(delta, topology_weight) ==
    LET raw == [n |-> Min2(Abs(delta), 1000) * topology_weight.n,
                d |-> 1000 * topology_weight.d]
        confidence == IF raw.n > raw.d THEN [n |-> 1, d |-> 1]
                      ELSE IF raw.n < 0 THEN [n |-> 0, d |-> 1]
                      ELSE raw
    IN [confidence |-> confidence, label |-> ConfidenceLabel(confidence)]

_compute_confidence(delta, topology_weight) ==
    LET scaled_delta == Min2(Abs(delta) * 2, 1000)    \* min(|delta| * 2, 1.0)
        raw == [n |-> scaled_delta * topology_weight.n,
                d |-> 1000 * topology_weight.d]
        \* clamp to [0, 1]
        confidence == IF raw.n > raw.d THEN [n |-> 1, d |-> 1]
                      ELSE IF raw.n < 0 THEN [n |-> 0, d |-> 1]
                      ELSE raw
    IN [confidence |-> confidence, label |-> ConfidenceLabel(confidence)]

----------------------------------------------------------------------------
(* SimulationEngine._calculate_pessimistic_delta *)

\* alert level of an amplified value sqrt(n/d) (before the cap at 1.0)
AlertLevel(n, d) ==
    IF 100 * n >= 64 * d THEN "critical"      \* >= 0.8
    ELSE IF 4 * n >= d THEN "high"            \* >= 0.5
    ELSE IF 25 * n >= d THEN "elevated"       \* >= 0.2
    ELSE "normal"

\* mutation: relief (raw_delta <= 0) zeroed instead of suppressed
_calculate_pessimistic_delta_zeroing(raw_delta, topology_weight) ==
    IF raw_delta > 0
    THEN LET n == raw_delta * topology_weight.n * topology_weight.n
             d == 250 * topology_weight.d * topology_weight.d
             sg == IF n > 0 THEN 1 ELSE 0
         IN [pessimistic |-> IF n > d THEN [sgn |-> 1, n |-> 1, d |-> 1]
                             ELSE [sgn |-> sg, n |-> n, d |-> d],
             alert_level |-> AlertLevel(n, d)]
    ELSE [pessimistic |-> [sgn |-> 0, n |-> 0, d |-> 100000000], alert_level |-> "normal"]

\* mutation: the amplified value returned without min(pessimistic, 1.0)
_calculate_pessimistic_delta_uncapped(raw_delta, topology_weight) ==
    IF raw_delta > 0
    THEN LET n == raw_delta * topology_weight.n * topology_weight.n
             d == 250 * topology_weight.d * topology_weight.d
             sg == IF n > 0 THEN 1 ELSE 0
         IN [pessimistic |-> [sgn |-> sg, n |-> n, d |-> d],
             alert_level |-> AlertLevel(n, d)]
    ELSE [pessimistic |-> [sgn |-> IF raw_delta < 0 THEN -1 ELSE 0,
                           n |-> raw_delta * raw_delta, d |-> 100000000],
          alert_level |-> "normal"]

_calculate_pessimistic_delta(raw_delta, topology_weight) ==
    IF raw_delta > 0
    THEN \* pessimistic = sqrt(raw_delta) * 2 * topology_weight, so
         \* pessimistic^2 = 4 * (raw_delta/1000) * tw^2 = raw_delta * tw.n^2 / (250 * tw.d^2)
         LET n == raw_delta * topology_weight.n * topology_weight.n
             d == 250 * topology_weight.d * topology_weight.d
             sg == IF n > 0 THEN 1 ELSE 0
         IN [pessimistic |-> IF n > d THEN [sgn |-> 1, n |-> 1, d |-> 1]   \* min(.., 1.0)
                             ELSE [sgn |-> sg, n |-> n, d |-> d],
             alert_level |-> AlertLevel(n, d)]
    ELSE \* suppressed = raw_delta * 0.1 = -sqrt(raw_delta^2 / 10000^2)
         [pessimistic |-> [sgn |-> IF raw_delta < 0 THEN -1 ELSE 0,
                           n |-> raw_delta * raw_delta, d |-> 100000000],
          alert_level |-> "normal"]

----------------------------------------------------------------------------
(* SimulationEngine._interpret_delta and the five _interpret_* helpers *)

\* risk tier of an effective magnitude given in thousandths
TierOfAbs(m) ==
    IF m < 50 THEN "low" ELSE IF m < 150 THEN "medium" ELSE IF m < 300 THEN "high" ELSE "critical"

\* risk tier of an effective magnitude sqrt(n/d)
TierOfSqrt(v) ==
    IF 400 * v.n < v.d THEN "low"               \* < 0.05
    ELSE IF 400 * v.n < 9 * v.d THEN "medium"   \* < 0.15
    ELSE IF 100 * v.n < 9 * v.d THEN "high"     \* < 0.30
    ELSE "critical"

TierColor(t) ==
    IF t = "low" THEN "#4CAF50" ELSE IF t = "medium" THEN "#FF9800"
    ELSE IF t = "high" THEN "#F44336" ELSE "#9C27B0"

AlertColor(a, c) ==
    IF a = "critical" THEN "#9C27B0" ELSE IF a = "high" THEN "#F44336"
    ELSE IF a = "elevated" THEN "#FF9800" ELSE c

\* mutation: every failure mode handled by _interpret_raw_delta
RiskTypeOfRawDelta(failure_mode, delta) ==
    IF delta < 0 THEN "IMPACT_DECREASE" ELSE "IMPACT_INCREASE"

\* risk type of a significant delta, by failure mode and direction
RiskTypeOf(failure_mode, delta) ==
    IF failure_mode = "DEMAND_LOSS"
    THEN (IF delta < 0 THEN "STAGNATION_RISK" ELSE "LOAD_REDISTRIBUTION")
    ELSE IF failure_mode = "SUPPLY_CUT"
    THEN (IF delta < 0 THEN "SUPPLY_ISOLATION" ELSE "PRESSURE_SURGE")
    ELSE IF failure_mode = "CONTAMINATION"
    THEN (IF delta < 0 THEN "BACKFLOW_RISK" ELSE "CONTAMINATION_SPREAD")
    ELSE IF failure_mode = "CONTROL_FAILURE"
    THEN (IF delta < 0 THEN "CONTROL_BLIND_SPOT" ELSE "CONTROL_INSTABILITY")
    ELSE (IF delta < 0 THEN "IMPACT_DECREASE" ELSE "IMPACT_INCREASE")

\* the failure_mode each _interpret_* helper writes into its result
HelperMode(failure_mode) ==
    IF failure_mode \in {"DEMAND_LOSS", "SUPPLY_CUT", "CONTAMINATION", "CONTROL_FAILURE"}
    THEN failure_mode ELSE "NONE"

SourceInterpretation(delta, failure_mode) ==
    [delta |-> delta, failure_mode |-> failure_mode, risk_type |-> "FAILURE_SOURCE",
     risk_level |-> "critical", ui_color |-> "#000000",
     confidence |-> [n |-> 1, d |-> 1], confidence_label |-> "high",
     pessimistic_delta |-> [sgn |-> 1, n |-> 1, d |-> 1], alert_level |-> "critical"]

\* the branch "no significant change"
UnaffectedInterpretation(delta, failure_mode, topology_weight) ==
    LET c == _compute_confidence(delta, topology_weight)
        p == _calculate_pessimistic_delta(delta, topology_weight)
    IN [delta |-> delta, failure_mode |-> failure_mode, risk_type |-> "UNAFFECTED",
        risk_level |-> "low", ui_color |-> "#9E9E9E",
        confidence |-> c.confidence, confidence_label |-> c.label,
        pessimistic_delta |-> p.pessimistic, alert_level |-> p.alert_level]

\* the dispatch on failure mode and the ten _interpret_* results
ModeInterpretation(delta, failure_mode, topology_weight, pessimistic_mode) ==
    LET abs_delta == Abs(delta)
        c == _compute_confidence(delta, topology_weight)
        p == _calculate_pessimistic_delta(delta, topology_weight)
        tier == IF pessimistic_mode /\ delta > 0
                THEN TierOfSqrt(p.pessimistic) ELSE TierOfAbs(abs_delta)
        override == pessimistic_mode /\ p.alert_level # "normal"
        risk_level == IF override THEN p.alert_level ELSE tier
        ui_color == IF override THEN AlertColor(p.alert_level, TierColor(tier))
                    ELSE TierColor(tier)
    IN [delta |-> delta, failure_mode |-> HelperMode(failure_mode),
        risk_type |-> RiskTypeOf(failure_mode, delta),
        risk_level |-> risk_level, ui_color |-> ui_color,
        confidence |-> c.confidence, confidence_label |-> c.label,
        pessimistic_delta |-> p.pessimistic, alert_level |-> p.alert_level]

\* mutation: the "no significant change" test placed before the source test
_interpret_delta_unaffected_first(delta, is_source, failure_mode, topology_weight, pessimistic_mode) ==
    IF Abs(delta) < 10 THEN UnaffectedInterpretation(delta, failure_mode, topology_weight)
    ELSE IF is_source THEN SourceInterpretation(delta, failure_mode)
    ELSE ModeInterpretation(delta, failure_mode, topology_weight, pessimistic_mode)

_interpret_delta(delta, is_source, failure_mode, topology_weight, pessimistic_mode) ==
    IF is_source THEN SourceInterpretation(delta, failure_mode)
    ELSE IF Abs(delta) < 10
    THEN UnaffectedInterpretation(delta, failure_mode, topology_weight)
    ELSE ModeInterpretation(delta, failure_mode, topology_weight, pessimistic_mode)

----------------------------------------------------------------------------
(* Predictor port: ImpactPredictor.predict / predict_with_threshold *)

output_dim == 12
status_col == 12

\* An output row is given by its length, its dimension 0 and the common value
\* of its other dimensions (the code reads row[0] and row.mean() only).
Row(v0, vr) == [dims |-> output_dim, dim0 |-> v0, rest |-> vr]
EmptyRow == [dims |-> 0, dim0 |-> 0, rest |-> 0]

\* row.mean() as a quotient
RowMean(row) == [n |-> row.dim0 + (row.dims - 1) * row.rest, d |-> row.dims]

PredInput(xs, ei, ew) == [x |-> xs, edge_index |-> ei, edge_weight |-> ew]

Raise == [kind |-> "raise", out |-> << >>]
Ok(out) == [kind |-> "ok", out |-> out]

\* probs[:, 0] : None when the array has no column 0 (IndexError)
Column0(out) ==
    IF \E i \in DOMAIN out : out[i].dims = 0 THEN None
    ELSE Some([i \in DOMAIN out |-> out[i].dim0])

\* mutation: the operands of the subtraction exchanged
SubtractReversed(a, b) ==
    IF Size(a) = Size(b) THEN Some([i \in DOMAIN a |-> b[i] - a[i]])
    ELSE IF Size(a) = 1 THEN Some([i \in DOMAIN b |-> b[i] - a[0]])
    ELSE IF Size(b) = 1 THEN Some([i \in DOMAIN a |-> b[0] - a[i]])
    ELSE None

\* numpy a - b on one-dimensional arrays, with broadcasting; None is ValueError
Subtract(a, b) ==
    IF Size(a) = Size(b) THEN Some([i \in DOMAIN a |-> a[i] - b[i]])
    ELSE IF Size(a) = 1 THEN Some([i \in DOMAIN b |-> a[0] - b[i]])
    ELSE IF Size(b) = 1 THEN Some([i \in DOMAIN a |-> a[i] - b[0]])
    ELSE None

----------------------------------------------------------------------------
(* SimulationEngine.run_simulation *)

InList(i, lst) == \E k \in 1..Len(lst) : lst[k] = i

RECURSIVE SetStatus(_, _, _)
\* the loop  for node_idx in failed_nodes: x_sim[node_idx, status_col] = 0.0
SetStatus(xs, failed_nodes, k) ==
    IF k > Len(failed_nodes) THEN [ok |-> TRUE, x_sim |-> xs]
    ELSE LET idx == PyIndex(failed_nodes[k], Size(xs))
         IN IF idx = None THEN [ok |-> FALSE, x_sim |-> xs]
            ELSE SetStatus([xs EXCEPT ![idx[1]][status_col] = 0], failed_nodes, k + 1)

\* mutation: x_sim = x without the copy, so the loop writes the caller's array
ForceFailInPlace(xs, failed_nodes) ==
    LET r == SetStatus(xs, failed_nodes, 1)
    IN [ok |-> r.ok, x |-> r.x_sim, x_sim |-> r.x_sim]

\* mutation: the whole feature row of a failed node is zeroed in the copy
CopyAndZeroRows(xs, failed_nodes) ==
    LET r == SetStatus(xs, failed_nodes, 1)
    IN [ok |-> r.ok, x |-> xs,
        x_sim |-> [i \in DOMAIN xs |->
                     IF r.x_sim[i] = xs[i] THEN xs[i] ELSE [c \in DOMAIN xs[i] |-> 0]]]

\* x_sim = x.copy() followed by the loop: the caller's array x is left as it was
CopyAndForceFail(xs, failed_nodes) ==
    LET r == SetStatus(xs, failed_nodes, 1)
    IN [ok |-> r.ok, x |-> xs, x_sim |-> r.x_sim]

\* mutation: the weights of the previous call are used when the engine holds
\* some, and the engine keeps the ones just computed
SelectStaleTopologyWeights(selfv, computed) ==
    [weights |-> IF selfv._topology_weights = None THEN computed
                 ELSE selfv._topology_weights[1],
     self |-> [selfv EXCEPT !._topology_weights = Some(computed)]]

\* topology_weights = self._compute_topology_weights(...): recomputed on every
\* call, the engine object is not written
SelectTopologyWeights(selfv, computed) == [weights |-> computed, self |-> selfv]

\* order on values sgn * sqrt(n/d)
LeqSqrt(a, b) ==
    IF a.sgn # b.sgn THEN a.sgn < b.sgn
    ELSE IF a.sgn = 0 THEN TRUE
    ELSE IF a.d = b.d THEN (IF a.sgn = 1 THEN a.n <= b.n ELSE a.n >= b.n)
    ELSE IF a.sgn = 1 THEN a.n * b.d <= b.n * a.d
    ELSE a.n * b.d >= b.n * a.d

MaxSqrt(S) == CHOOSE m \in S : \A v \in S : LeqSqrt(v, m)

RECURSIVE InsertDescBeforeTies(_, _)
\* mutation: r placed before the records of equal |delta| (an unstable sort)
InsertDescBeforeTies(s, r) ==
    IF s = << >> THEN <<r>>
    ELSE IF Abs(Head(s).delta) > Abs(r.delta)
    THEN <<Head(s)>> \o InsertDescBeforeTies(Tail(s), r)
    ELSE <<r>> \o s

RECURSIVE InsertDesc(_, _)
\* r placed after every record whose |delta| is not smaller
InsertDesc(s, r) ==
    IF s = << >> THEN <<r>>
    ELSE IF Abs(Head(s).delta) >= Abs(r.delta) THEN <<Head(s)>> \o InsertDesc(Tail(s), r)
    ELSE <<r>> \o s

RECURSIVE SortReport(_)
\* report.sort(key=lambda r: abs(r["delta"]), reverse=True): stable
SortReport(report) ==
    IF report = << >> THEN << >>
    ELSE InsertDesc(SortReport(SubSeq(report, 1, Len(report) - 1)), report[Len(report)])

\* affected_nodes = [r for r in report if abs(r["delta"]) > 0.01]
AffectedNodes(report) == {k \in 1..Len(report) : Abs(report[k].delta) > 10}

\* np.max(np.abs(deltas))
MaxAbsDelta(deltas) == MaxOf({Abs(deltas[i]) : i \in DOMAIN deltas})

\* np.mean(np.abs(deltas))
MeanAbsDelta(deltas) ==
    [n |-> SumTo([i \in DOMAIN deltas |-> Abs(deltas[i])], Size(deltas)), d |-> Size(deltas)]

ErrorResult(e) == [kind |-> "error", error |-> e, report |-> None]
ReportResult(r) == [kind |-> "report", error |-> "", report |-> Some(r)]

(* SimulationEngine._summarize_interpretations *)

RECURSIVE FirstOccurrences(_)
\* the keys of risk_counts in insertion order
FirstOccurrences(types) ==
    IF types = << >> THEN << >>
    ELSE LET rest == FirstOccurrences(SubSeq(types, 1, Len(types) - 1))
             t == types[Len(types)]
         IN IF InList(t, rest) THEN rest ELSE Append(rest, t)

RECURSIVE InsertByCount(_, _)
InsertByCount(s, e) ==
    IF s = << >> THEN <<e>>
    ELSE IF Head(s).count >= e.count THEN <<Head(s)>> \o InsertByCount(Tail(s), e)
    ELSE <<e>> \o s

RECURSIVE SortByCount(_)
\* sorted(risk_counts.items(), key=lambda x: -x[1])
SortByCount(s) ==
    IF s = << >> THEN << >>
    ELSE InsertByCount(SortByCount(SubSeq(s, 1, Len(s) - 1)), s[Len(s)])

_summarize_interpretations(report, failure_mode, pessimistic_mode) ==
    LET IsAffected(r) == Abs(r.delta) > 10 /\ ~r.is_failed_source
        affected == SelectSeq(report, IsAffected)
        types == FirstOccurrences([k \in 1..Len(affected) |->
                                      affected[k].interpretation.risk_type])
        CountType(t) == Cardinality({k \in 1..Len(affected) :
                                        affected[k].interpretation.risk_type = t})
        CountAlert(a) == Cardinality({k \in 1..Len(affected) :
                                         affected[k].interpretation.alert_level = a})
        parts == SortByCount([k \in 1..Len(types) |->
                                 [risk_type |-> types[k], count |-> CountType(types[k])]])
        IsRaised(e) == e.count > 0
        alerts == IF pessimistic_mode
                  THEN SelectSeq(<<[level |-> "critical", count |-> CountAlert("critical")],
                                   [level |-> "high", count |-> CountAlert("high")],
                                   [level |-> "elevated", count |-> CountAlert("elevated")]>>,
                                 IsRaised)
                  ELSE << >>
    IN IF affected = << >>
       THEN [text |-> "No significant downstream impact detected.",
             parts |-> << >>, alerts |-> << >>]
       ELSE [text |-> failure_mode, parts |-> parts, alerts |-> alerts]

\* steps 5 to 8 of run_simulation, once both predictions and the deltas exist
BuildReport(selfv, xc, cs, num_nodes, ei, ew, failed_nodes, failure_mode, pessimistic_mode, baseline_probs, sim_probs, deltas) ==
    LET sel == SelectTopologyWeights(selfv, _compute_topology_weights(ei, ew, num_nodes))
        topology_weights == sel.weights
        nodes == 0..(num_nodes - 1)
        \* indexing baseline_probs[i], sim_probs[i], deltas[i] for i in range(num_nodes)
        indexable == /\ Size(deltas) >= num_nodes
                     /\ Size(baseline_probs) >= num_nodes
                     /\ Size(sim_probs) >= num_nodes
        pessimistic_deltas ==
            [i \in nodes |->
                IF pessimistic_mode
                THEN _calculate_pessimistic_delta(deltas[i], topology_weights[i]).pessimistic
                ELSE [sgn |-> 0, n |-> 0, d |-> 1]]
        report == [k \in 1..num_nodes |->
                     LET i == k - 1
                     IN [node_id |-> i,
                         node_name |-> i,
                         baseline |-> baseline_probs[i],
                         simulated |-> sim_probs[i],
                         delta |-> deltas[i],
                         pessimistic_delta |-> IF pessimistic_mode
                                               THEN Some(pessimistic_deltas[i]) ELSE None,
                         is_failed_source |-> InList(i, failed_nodes),
                         interpretation |->
                             _interpret_delta(deltas[i], InList(i, failed_nodes),
                                              failure_mode, topology_weights[i],
                                              pessimistic_mode)]]
        sorted == SortReport(report)
        summary ==
            [total_nodes |-> num_nodes,
             failed_nodes |-> failed_nodes,
             failed_names |-> [k \in 1..Len(failed_nodes) |->
                                  PyIndex(failed_nodes[k], num_nodes)[1]],
             failure_mode |-> failure_mode,
             pessimistic_mode |-> pessimistic_mode,
             affected_count |-> Cardinality(AffectedNodes(sorted)),
             max_delta |-> MaxAbsDelta(deltas),
             mean_delta |-> MeanAbsDelta(deltas),
             max_pessimistic_delta |->
                 IF pessimistic_mode
                 THEN Some(MaxSqrt({pessimistic_deltas[i] : i \in nodes})) ELSE None,
             interpretation_summary |->
                 _summarize_interpretations(sorted, failure_mode, pessimistic_mode)]
    IN IF ~indexable
       THEN [self |-> sel.self, x |-> xc, calls |-> cs, result |-> ErrorResult("IndexError")]
       ELSE [self |-> sel.self, x |-> xc, calls |-> cs,
             result |-> ReportResult([summary |-> summary, nodes |-> sorted,
                                      raw |-> [baseline |-> baseline_probs,
                                               simulated |-> sim_probs,
                                               deltas |-> deltas]])]

\* run_simulation with the predictor's answers o1 (baseline call) and o2
\* (counterfactual call); o2 is not looked at when the second call is not made.
\* Gives the engine object and the caller's x after the call, the predictor
\* inputs in call order, and the value returned or the exception raised.
run_simulation(selfv, xs, ei, ew, failed_nodes, failure_mode, pessimistic_mode, o1, o2) ==
    LET num_nodes == Size(xs)
        in1 == PredInput(xs, ei, ew)
        ff == CopyAndForceFail(xs, failed_nodes)
        in2 == PredInput(ff.x_sim, ei, ew)
        Fail(e, cs, xc) == [self |-> selfv, x |-> xc, calls |-> cs, result |-> ErrorResult(e)]
    IN IF o1.kind = "raise" THEN Fail("PredictorError", <<in1>>, xs)
       ELSE LET b == Column0(o1.out)
            IN IF b = None THEN Fail("IndexError", <<in1>>, xs)
               ELSE IF ~ff.ok THEN Fail("IndexError", <<in1>>, ff.x)
               ELSE IF o2.kind = "raise" THEN Fail("PredictorError", <<in1, in2>>, ff.x)
               ELSE LET s == Column0(o2.out)
                    IN IF s = None THEN Fail("IndexError", <<in1, in2>>, ff.x)
                       ELSE LET dl == Subtract(s[1], b[1])
                            IN IF dl = None THEN Fail("ValueError", <<in1, in2>>, ff.x)
                               ELSE BuildReport(selfv, ff.x, <<in1, in2>>, num_nodes, ei, ew,
                                                failed_nodes, failure_mode, pessimistic_mode,
                                                b[1], s[1], dl[1])

----------------------------------------------------------------------------
(* causal_attribution.py *)

\* quotients p - b, and comparisons of a quotient with a number of thousandths
QSub(p, b) == IF p.d = b.d THEN [n |-> p.n - b.n, d |-> p.d]
              ELSE [n |-> p.n * b.d - b.n * p.d, d |-> p.d * b.d]
\* mutation: the magnitude compared where the code compares the signed value
QAbsGreater(q, c) == Abs(q.n) > c * q.d
QGreater(q, c) == q.n > c * q.d
QLess(q, c) == q.n < c * q.d
QAbsGeq(a, b) == Abs(a.n) * b.d >= Abs(b.n) * a.d
QLeq(a, b) == a.n * b.d <= b.n * a.d

\* pred[target_node_idx].mean() of a predictor answer
TargetImpact(answer, target_node_idx) ==
    IF answer.kind = "raise" THEN [error |-> "PredictorError", impact |-> [n |-> 0, d |-> 1]]
    ELSE LET idx == PyIndex(target_node_idx, Size(answer.out))
         IN IF idx = None THEN [error |-> "IndexError", impact |-> [n |-> 0, d |-> 1]]
            ELSE [error |-> "", impact |-> RowMean(answer.out[idx[1]])]

\* mutation: every edge taken as incoming, whatever its destination
AllEdges(ei, target_node_idx) == [k \in 1..Len(ei) |-> k]

\* the indices (from 1) of the edges whose destination is the target, in order
IncomingEdges(ei, target_node_idx) ==
    LET IsIn(k) == ei[k][2] = target_node_idx
    IN SelectSeq([k \in 1..Len(ei) |-> k], IsIn)

RECURSIVE Ascending(_)
\* the elements of a set of integers in ascending order
Ascending(S) == IF S = {} THEN << >>
                ELSE LET m == MaxOf(S) IN Append(Ascending(S \ {m}), m)

\* mutation: the sources of the incoming edges, duplicates kept
NeighborsWithDuplicates(ei, target_node_idx) ==
    LET inc == IncomingEdges(ei, target_node_idx)
    IN [k \in 1..Len(inc) |-> ei[inc[k]][1]]

\* neighbors = list(set(neighbors)): small non-negative integers come out of a
\* CPython set in ascending order
UpstreamNeighbors(ei, target_node_idx) ==
    LET inc == IncomingEdges(ei, target_node_idx)
    IN Ascending({ei[inc[k]][1] : k \in 1..Len(inc)})

\* mutation: x_perturbed = x without the copy, so perturbations accumulate
PerturbAccumulating(xs, neighbor_idx) ==
    LET xp == [xs EXCEPT ![neighbor_idx] = [@ EXCEPT ![15] = 0, ![13] = 0, ![14] = 0]]
    IN [x |-> xp, x_perturbed |-> xp]

\* x_perturbed = x.copy(); columns 15, 13, 14 of the neighbor set to 0
CopyAndPerturb(xs, neighbor_idx) ==
    [x |-> xs,
     x_perturbed |-> [xs EXCEPT ![neighbor_idx] = [@ EXCEPT ![15] = 0, ![13] = 0, ![14] = 0]]]

\* x_repaired = x.copy(); columns 15, 13, 14 of the failed node set to healthy values
CopyAndRepair(xs, failed_node_idx) ==
    LET idx == PyIndex(failed_node_idx, Size(xs))
    IN IF idx = None THEN [ok |-> FALSE, x |-> xs, x_repaired |-> xs]
       ELSE [ok |-> TRUE, x |-> xs,
             x_repaired |-> [xs EXCEPT ![idx[1]] = [@ EXCEPT ![15] = 90, ![13] = 80, ![14] = 70]]]

\* mutation: the first element removed, whatever k
RemoveFirst(seq, k) == Tail(seq)

RemoveAt(seq, k) == SubSeq(seq, 1, k - 1) \o SubSeq(seq, k + 1, Len(seq))

\* edge_index[:, edge_mask] and edge_attr[edge_mask] with edge k masked out: new
\* arrays; a mask whose length differs from the array's is an IndexError
Occlude(ei, ea, k) ==
    IF Len(ea) # Len(ei)
    THEN [ok |-> FALSE, edge_index |-> ei, edge_attr |-> ea,
          edge_index_occluded |-> RemoveAt(ei, k), edge_attr_occluded |-> ea]
    ELSE [ok |-> TRUE, edge_index |-> ei, edge_attr |-> ea,
          edge_index_occluded |-> RemoveAt(ei, k), edge_attr_occluded |-> RemoveAt(ea, k)]

\* mutation: no ordering, r is appended
InsertUnsorted(s, r) == Append(s, r)

RECURSIVE InsertByAbsEffect(_, _)
InsertByAbsEffect(s, r) ==
    IF s = << >> THEN <<r>>
    ELSE IF QAbsGeq(Head(s).causal_effect, r.causal_effect)
    THEN <<Head(s)>> \o InsertByAbsEffect(Tail(s), r)
    ELSE <<r>> \o s

RECURSIVE SortByAbsEffect(_)
\* results.sort(key=lambda x: abs(x['causal_effect']), reverse=True)
SortByAbsEffect(s) ==
    IF s = << >> THEN << >>
    ELSE InsertByAbsEffect(SortByAbsEffect(SubSeq(s, 1, Len(s) - 1)), s[Len(s)])

RECURSIVE InsertByEffect(_, _)
InsertByEffect(s, r) ==
    IF s = << >> THEN <<r>>
    ELSE IF QLeq(Head(s).causal_effect, r.causal_effect)
    THEN <<Head(s)>> \o InsertByEffect(Tail(s), r)
    ELSE <<r>> \o s

RECURSIVE SortByEffect(_)
\* results.sort(key=lambda x: x['causal_effect'])
SortByEffect(s) ==
    IF s = << >> THEN << >>
    ELSE InsertByEffect(SortByEffect(SubSeq(s, 1, Len(s) - 1)), s[Len(s)])

CausalError(e) == [kind |-> "error", error |-> e, report |-> None]
CausalResult(results, conclusion) ==
    [kind |-> "results", error |-> "",
     report |-> Some([results |-> results, conclusion |-> conclusion])]

\* node_perturbation_analysis with the predictor's answers in call order
\* (answers[1] the baseline, answers[1 + k] the k-th neighbor's perturbation)
node_perturbation_analysis(xs, ei, ea, target_node_idx, answers) ==
    LET in1 == PredInput(xs, ei, ea)
        base == TargetImpact(answers[1], target_node_idx)
        neighbors == UpstreamNeighbors(ei, target_node_idx)
        step[k \in 0..Len(neighbors)] ==
            IF k = 0 THEN [x |-> xs, calls |-> <<in1>>, results |-> << >>, error |-> ""]
            ELSE LET p == step[k - 1]
                     cp == CopyAndPerturb(p.x, neighbors[k])
                     cs == Append(p.calls, PredInput(cp.x_perturbed, ei, ea))
                     pert == TargetImpact(answers[1 + k], target_node_idx)
                 IN IF p.error # "" THEN p
                    ELSE IF pert.error # ""
                    THEN [x |-> cp.x, calls |-> cs, results |-> p.results,
                          error |-> pert.error]
                    ELSE [x |-> cp.x, calls |-> cs, error |-> "",
                          results |-> Append(p.results,
                              [neighbor_idx |-> neighbors[k],
                               baseline_impact |-> base.impact,
                               perturbed_impact |-> pert.impact,
                               causal_effect |-> QSub(pert.impact, base.impact)])]
        last == step[Len(neighbors)]
        results == SortByAbsEffect(last.results)
    IN IF base.error # ""
       THEN [x |-> xs, edge_index |-> ei, edge_attr |-> ea, calls |-> <<in1>>,
             result |-> CausalError(base.error)]
       ELSE IF neighbors = << >>
       THEN [x |-> xs, edge_index |-> ei, edge_attr |-> ea, calls |-> <<in1>>,
             result |-> CausalResult(<< >>, "no incoming connections")]
       ELSE IF last.error # ""
       THEN [x |-> last.x, edge_index |-> ei, edge_attr |-> ea, calls |-> last.calls,
             result |-> CausalError(last.error)]
       ELSE [x |-> last.x, edge_index |-> ei, edge_attr |-> ea, calls |-> last.calls,
             result |-> CausalResult(results,
                 IF QGreater(results[1].causal_effect, 50)
                 THEN "node causes the target's risk"
                 ELSE "no single upstream node dominates")]

\* edge_occlusion_analysis with the predictor's answers in call order
edge_occlusion_analysis(xs, ei, ea, target_node_idx, answers) ==
    LET in1 == PredInput(xs, ei, ea)
        base == TargetImpact(answers[1], target_node_idx)
        incoming_edges == IncomingEdges(ei, target_node_idx)
        step[k \in 0..Len(incoming_edges)] ==
            IF k = 0 THEN [edge_index |-> ei, edge_attr |-> ea, calls |-> <<in1>>,
                           results |-> << >>, error |-> ""]
            ELSE LET p == step[k - 1]
                     e == incoming_edges[k]
                     oc == Occlude(p.edge_index, p.edge_attr, e)
                     cs == Append(p.calls,
                                  PredInput(xs, oc.edge_index_occluded, oc.edge_attr_occluded))
                     occ == TargetImpact(answers[1 + k], target_node_idx)
                     effect == QSub(occ.impact, base.impact)
                 IN IF p.error # "" THEN p
                    ELSE IF ~oc.ok
                    THEN [edge_index |-> oc.edge_index, edge_attr |-> oc.edge_attr,
                          calls |-> p.calls, results |-> p.results, error |-> "IndexError"]
                    ELSE IF occ.error # ""
                    THEN [edge_index |-> oc.edge_index, edge_attr |-> oc.edge_attr,
                          calls |-> cs, results |-> p.results, error |-> occ.error]
                    ELSE [edge_index |-> oc.edge_index, edge_attr |-> oc.edge_attr,
                          calls |-> cs, error |-> "",
                          results |-> Append(p.results,
                              [edge_idx |-> e - 1,
                               source_idx |-> p.edge_index[e][1],
                               edge_weight |-> p.edge_attr[e],
                               baseline_impact |-> base.impact,
                               occluded_impact |-> occ.impact,
                               causal_effect |-> effect,
                               interpretation |->
                                   IF QLess(effect, -50) THEN "CRITICAL CASCADE PATH"
                                   ELSE IF QLess(effect, -10) THEN "Moderate cascade path"
                                   ELSE "Low impact connection"])]
        last == step[Len(incoming_edges)]
        results == SortByEffect(last.results)
    IN IF base.error # ""
       THEN [x |-> xs, edge_index |-> ei, edge_attr |-> ea, calls |-> <<in1>>,
             result |-> CausalError(base.error)]
       ELSE IF incoming_edges = << >>
       THEN [x |-> xs, edge_index |-> ei, edge_attr |-> ea, calls |-> <<in1>>,
             result |-> CausalResult(<< >>, "no incoming edges")]
       ELSE IF last.error # ""
       THEN [x |-> xs, edge_index |-> last.edge_index, edge_attr |-> last.edge_attr,
             calls |-> last.calls, result |-> CausalError(last.error)]
       ELSE [x |-> xs, edge_index |-> last.edge_index, edge_attr |-> last.edge_attr,
             calls |-> last.calls,
             result |-> CausalResult(results,
                 IF QLess(results[1].causal_effect, -50)
                 THEN "this connection is transmitting the cascade"
                 ELSE "risk propagates through multiple paths")]

\* counterfactual_analysis with the predictor's answers in call order
counterfactual_analysis(xs, ei, ea, target_node_idx, failed_node_idx, answers) ==
    LET in1 == PredInput(xs, ei, ea)
        cur == TargetImpact(answers[1], target_node_idx)
        cr == CopyAndRepair(xs, failed_node_idx)
        in2 == PredInput(cr.x_repaired, ei, ea)
        rep == TargetImpact(answers[2], target_node_idx)
        benefit == QSub(cur.impact, rep.impact)
    IN IF cur.error # ""
       THEN [x |-> xs, edge_index |-> ei, edge_attr |-> ea, calls |-> <<in1>>,
             result |-> CausalError(cur.error)]
       ELSE IF ~cr.ok
       THEN [x |-> cr.x, edge_index |-> ei, edge_attr |-> ea, calls |-> <<in1>>,
             result |-> CausalError("IndexError")]
       ELSE IF rep.error # ""
       THEN [x |-> cr.x, edge_index |-> ei, edge_attr |-> ea, calls |-> <<in1, in2>>,
             result |-> CausalError(rep.error)]
       ELSE [x |-> cr.x, edge_index |-> ei, edge_attr |-> ea, calls |-> <<in1, in2>>,
             result |-> [kind |-> "results", error |-> "",
                         report |-> Some([current_impact |-> cur.impact,
                                          repaired_impact |-> rep.impact,
                                          benefit |-> benefit,
                                          priority |->
                                              IF QGreater(benefit, 100) THEN "high"
                                              ELSE IF QGreater(benefit, 50) THEN "moderate"
                                              ELSE "low"])]]

----------------------------------------------------------------------------
(* Inputs: graphs, requests and predictor responses *)

Nodes == 0..(NumNodes - 1)

\* the feature columns the engine reads or writes (status, level, flow, capacity)
\* and one column it never touches
FeatureCols == {12, 13, 14, 15, 16}

HealthyRow == [c \in FeatureCols |->
                 IF c = 12 THEN 90 ELSE IF c = 13 THEN 80 ELSE IF c = 14 THEN 70
                 ELSE IF c = 15 THEN 90 ELSE 80]
DegradedRow == [c \in FeatureCols |->
                  IF c = 12 THEN 80 ELSE IF c = 13 THEN 10 ELSE IF c = 16 THEN 85 ELSE 0]

XChoices == {[i \in Nodes |-> IF i = 0 THEN DegradedRow ELSE HealthyRow]}

NoEdges == [edge_index |-> << >>, edge_weight |-> << >>]
Chain == [edge_index |-> [k \in 1..(NumNodes - 1) |-> <<k - 1, k>>],
          edge_weight |-> [k \in 1..(NumNodes - 1) |-> IF k % 2 = 1 THEN 9 ELSE 5]]
\* parallel edges into the last node and one edge back
FanIn == [edge_index |-> <<<<0, NumNodes - 1>>, <<0, NumNodes - 1>>,
                           <<1, NumNodes - 1>>, <<NumNodes - 1, 0>>>>,
          edge_weight |-> <<8, 4, 10, 6>>]
\* a star out of node 0 whose weight array is shorter than its edge list
ShortWeights == [edge_index |-> [k \in 1..(NumNodes - 1) |-> <<0, k>>],
                 edge_weight |-> <<7>>]

EdgeChoices == {NoEdges, Chain, FanIn, ShortWeights}

FailedChoices == {<< >>, <<0>>, <<0, 1>>, <<-1>>, <<NumNodes>>}

SimRequests ==
    {[op |-> "run_simulation", failed_nodes |-> f, failure_mode |-> m,
      pessimistic_mode |-> p, target_node_idx |-> 0, failed_node_idx |-> 0] :
        f \in FailedChoices, m \in FailureModes, p \in BOOLEAN}

ProbVals == {100, 400}

\* every assignment of the two values, and two graded outputs (steps of 0.006
\* and of 0.01)
GoodOutputs ==
    {[i \in Nodes |-> Row(f[i], 200)] : f \in [Nodes -> ProbVals]}
    \cup {[i \in Nodes |-> Row(100 + 6 * i, 200)], [i \in Nodes |-> Row(250 - 10 * i, 200)]}
FewerRows == [i \in 0..(NumNodes - 2) |-> Row(100, 200)]
MoreRows == [i \in 0..NumNodes |-> Row(100, 200)]
MoreRowsHigh == [i \in 0..NumNodes |-> Row(IF i = NumNodes THEN 400 ELSE 100, 200)]
NoColumns == [i \in Nodes |-> EmptyRow]

SimResponses ==
    {Raise} \cup {Ok(o) : o \in GoodOutputs \cup {FewerRows, MoreRows, MoreRowsHigh, NoColumns}}

TargetChoices == {0, NumNodes - 1, -1, NumNodes}

CausalRequests ==
    {[op |-> o, failed_nodes |-> << >>, failure_mode |-> "NONE", pessimistic_mode |-> FALSE,
      target_node_idx |-> t, failed_node_idx |-> 0] :
        o \in {"node_perturbation", "edge_occlusion"}, t \in TargetChoices}
    \cup
    {[op |-> "counterfactual", failed_nodes |-> << >>, failure_mode |-> "NONE",
      pessimistic_mode |-> FALSE, target_node_idx |-> t, failed_node_idx |-> f] :
        t \in {NumNodes - 1, NumNodes}, f \in {0, -1, NumNodes}}

\* outputs with the same row for every node: dimension 0 and the other
\* dimensions vary independently
CausalOutputs == {[i \in Nodes |-> Row(v, r)] : v \in {100, 900}, r \in {200, 300}}

CausalResponses == {Raise} \cup {Ok(o) : o \in CausalOutputs \cup {FewerRows}}

\* a predictor with two well-formed outputs, for sequences of calls
SeqResponses == {Ok([i \in Nodes |-> Row(100, 200)]),
                 Ok([i \in Nodes |-> Row(IF i = 1 THEN 400 ELSE 100, 200)])}

SeqGraphs == {Chain, NoEdges}

SeqRequests ==
    {[op |-> "run_simulation", failed_nodes |-> <<0>>, failure_mode |-> "SUPPLY_CUT",
      pessimistic_mode |-> p, target_node_idx |-> 0, failed_node_idx |-> 0] :
        p \in BOOLEAN}

ResponsesOf(kind) ==
    IF kind = "causal" THEN CausalResponses
    ELSE IF kind = "seq" THEN SeqResponses
    ELSE SimResponses

\* no checkpoint file and no method frame: the engine and the causal-attribution
\* functions touch neither
NoFiles == << >>
NoLocals == << >>

NoResult == [kind |-> "none", error |-> "", report |-> None]
NoRequest == [op |-> "none", failed_nodes |-> << >>, failure_mode |-> "NONE",
              pessimistic_mode |-> FALSE, target_node_idx |-> 0, failed_node_idx |-> 0]

----------------------------------------------------------------------------
(* The state machine *)

\* the predictor is deterministic: an input answered before gets the same answer
Answered(table, cs, answers) ==
    \A k \in 1..Len(cs) :
        /\ \A e \in table : e.input = cs[k] => e.response = answers[k]
        /\ \A j \in 1..(k - 1) : cs[j] = cs[k] => answers[j] = answers[k]

Learned(table, cs, answers) ==
    table \cup {[input |-> cs[k], response |-> answers[k]] : k \in 1..Len(cs)}

\* SimulationEngine.__init__
NewEngine == [_topology_weights |-> None]

Init ==
    /\ x \in XChoices
    /\ \E g \in EdgeChoices : edge_index = g.edge_index /\ edge_weight = g.edge_weight
    /\ self = NewEngine
    /\ request \in SimRequests \cup CausalRequests
    /\ predictor = [kind |-> IF request.op = "run_simulation" THEN "any" ELSE "causal",
                    table |-> {}]
    /\ calls = << >>
    /\ result = NoResult
    /\ pc = "called"
    /\ history = << >>
    /\ ncalls = 1
    /\ files = NoFiles
    /\ locals = NoLocals

RunSimulation ==
    /\ pc = "called"
    /\ request.op = "run_simulation"
    /\ \E o1, o2 \in ResponsesOf(predictor.kind) :
         LET r == run_simulation(self, x, edge_index, edge_weight, request.failed_nodes,
                                 request.failure_mode, request.pessimistic_mode, o1, o2)
             answers == <<o1, o2>>
         IN /\ Answered(predictor.table, r.calls, answers)
            /\ Len(r.calls) < 2 => o2 = o1
            /\ predictor' = [predictor EXCEPT !.table = Learned(@, r.calls, answers)]
            /\ x' = r.x
            /\ self' = r.self
            /\ calls' = r.calls
            /\ result' = r.result
    /\ pc' = "returned"
    /\ UNCHANGED <<edge_index, edge_weight, request, history, ncalls>>
    /\ UNCHANGED <<files, locals>>

\* answers beyond the calls actually made are not looked at
Unused(answers, cs) == \A k \in (Len(cs) + 1)..Len(answers) : answers[k] = answers[1]

NodePerturbation ==
    /\ pc = "called"
    /\ request.op = "node_perturbation"
    /\ \E answers \in [1..(1 + Len(UpstreamNeighbors(edge_index, request.target_node_idx)))
                          -> ResponsesOf(predictor.kind)] :
         LET r == node_perturbation_analysis(x, edge_index, edge_weight,
                                             request.target_node_idx, answers)
         IN /\ Answered(predictor.table, r.calls, answers)
            /\ Unused(answers, r.calls)
            /\ predictor' = [predictor EXCEPT !.table = Learned(@, r.calls, answers)]
            /\ x' = r.x
            /\ edge_index' = r.edge_index
            /\ edge_weight' = r.edge_attr
            /\ calls' = r.calls
            /\ result' = r.result
    /\ pc' = "returned"
    /\ UNCHANGED <<self, request, history, ncalls>>
    /\ UNCHANGED <<files, locals>>

EdgeOcclusion ==
    /\ pc = "called"
    /\ request.op = "edge_occlusion"
    /\ \E answers \in [1..(1 + Len(IncomingEdges(edge_index, request.target_node_idx)))
                          -> ResponsesOf(predictor.kind)] :
         LET r == edge_occlusion_analysis(x, edge_index, edge_weight,
                                          request.target_node_idx, answers)
         IN /\ Answered(predictor.table, r.calls, answers)
            /\ Unused(answers, r.calls)
            /\ predictor' = [predictor EXCEPT !.table = Learned(@, r.calls, answers)]
            /\ x' = r.x
            /\ edge_index' = r.edge_index
            /\ edge_weight' = r.edge_attr
            /\ calls' = r.calls
            /\ result' = r.result
    /\ pc' = "returned"
    /\ UNCHANGED <<self, request, history, ncalls>>
    /\ UNCHANGED <<files, locals>>

Counterfactual ==
    /\ pc = "called"
    /\ request.op = "counterfactual"
    /\ \E answers \in [1..2 -> ResponsesOf(predictor.kind)] :
         LET r == counterfactual_analysis(x, edge_index, edge_weight,
                                          request.target_node_idx,
                                          request.failed_node_idx, answers)
         IN /\ Answered(predictor.table, r.calls, answers)
            /\ Unused(answers, r.calls)
            /\ predictor' = [predictor EXCEPT !.table = Learned(@, r.calls, answers)]
            /\ x' = r.x
            /\ edge_index' = r.edge_index
            /\ edge_weight' = r.edge_attr
            /\ calls' = r.calls
            /\ result' = r.result
    /\ pc' = "returned"
    /\ UNCHANGED <<self, request, history, ncalls>>
    /\ UNCHANGED <<files, locals>>

Next == RunSimulation \/ NodePerturbation \/ EdgeOcclusion \/ Counterfactual

Spec == Init /\ [][Next]_vars

(* Sequences of run_simulation calls on one engine *)

\* the arguments of the call in progress or just completed
CurrentArgs ==
    [x |-> x, edge_index |-> edge_index, edge_weight |-> edge_weight,
     failed_nodes |-> request.failed_nodes, failure_mode |-> request.failure_mode,
     pessimistic_mode |-> request.pessimistic_mode]

InitSeq ==
    /\ x \in XChoices
    /\ edge_index = NoEdges.edge_index
    /\ edge_weight = NoEdges.edge_weight
    /\ self = NewEngine
    /\ request = NoRequest
    /\ predictor = [kind |-> "seq", table |-> {}]
    /\ calls = << >>
    /\ result = NoResult
    /\ pc = "returned"
    /\ history = << >>
    /\ ncalls = 0
    /\ files = NoFiles
    /\ locals = NoLocals

\* the caller makes its next call on the same engine, with a graph of its choice
Submit ==
    /\ pc = "returned"
    /\ ncalls < MaxCalls
    /\ \E g \in SeqGraphs, req \in SeqRequests :
         /\ edge_index' = g.edge_index
         /\ edge_weight' = g.edge_weight
         /\ request' = req
    /\ history' = IF request.op = "run_simulation"
                  THEN Append(history, [args |-> CurrentArgs, result |-> result])
                  ELSE history
    /\ calls' = << >>
    /\ result' = NoResult
    /\ pc' = "called"
    /\ ncalls' = ncalls + 1
    /\ UNCHANGED <<x, self, predictor>>
    /\ UNCHANGED <<files, locals>>

NextSeq == Submit \/ RunSimulation

SpecSeq == InitSeq /\ [][NextSeq]_vars

(* The engine's pure helpers called directly *)

\* deltas in thousandths, over the whole range [-1, 1]
DeltaChoices ==
    {-1000, -600, -300, -150, -50, -10, -6, 0, 6, 10, 40, 50, 140, 150, 250, 300, 600, 1000}

\* topology weights the calculator can produce
TopologyChoices ==
    {[n |-> 0, d |-> 1], [n |-> 1, d |-> 2], [n |-> 5, d |-> 14], [n |-> 3, d |-> 4],
     [n |-> 1, d |-> 1]}

\* a negative weight and a weight above 1, which only a direct caller can pass
OutsideChoices == {[n |-> -1, d |-> 2], [n |-> 3, d |-> 2]}

\* a chain whose weights are all 0
ZeroWeights == [edge_index |-> Chain.edge_index,
                edge_weight |-> [k \in 1..(NumNodes - 1) |-> 0]]
\* one edge with a self-loop at its source; the last node has no edge
OneEdge == [edge_index |-> <<<<0, 1>>, <<0, 0>>>>, edge_weight |-> <<3, 0>>]

\* every graph of two edges (self-loops and parallel edges included) with
\* weights 0, 0.5 or 1.0
TwoEdgeGraphs ==
    {[edge_index |-> <<e1, e2>>, edge_weight |-> <<w1, w2>>] :
        e1 \in Nodes \X Nodes, e2 \in Nodes \X Nodes, w1 \in {0, 5, 10}, w2 \in {0, 5, 10}}

TopologyGraphs == EdgeChoices \cup {ZeroWeights, OneEdge} \cup TwoEdgeGraphs

HelperRequest(op, delta, other_delta, topology_weight) ==
    [op |-> op, failed_nodes |-> << >>, failure_mode |-> "NONE", pessimistic_mode |-> FALSE,
     target_node_idx |-> 0, failed_node_idx |-> 0,
     delta |-> delta, other_delta |-> other_delta, topology_weight |-> topology_weight]

HelperRequests ==
    {HelperRequest("_compute_confidence", d, d, w) :
        d \in DeltaChoices, w \in TopologyChoices \cup OutsideChoices}
    \cup {HelperRequest("_calculate_pessimistic_delta", d, e, w) :
             d \in DeltaChoices, e \in DeltaChoices, w \in TopologyChoices}
    \cup {HelperRequest("_compute_topology_weights", 0, 0, [n |-> 1, d |-> 1])}

ValueResult(v) == [kind |-> "value", error |-> "", report |-> Some(v)]

InitPure ==
    /\ x \in XChoices
    /\ request \in HelperRequests
    /\ \E g \in IF request.op = "_compute_topology_weights" THEN TopologyGraphs ELSE {NoEdges} :
          edge_index = g.edge_index /\ edge_weight = g.edge_weight
    /\ self = NewEngine
    /\ predictor = [kind |-> "none", table |-> {}]
    /\ calls = << >>
    /\ result = NoResult
    /\ pc = "called"
    /\ history = << >>
    /\ ncalls = 1
    /\ files = NoFiles
    /\ locals = NoLocals

ComputeTopologyWeights ==
    /\ pc = "called"
    /\ request.op = "_compute_topology_weights"
    /\ result' = ValueResult(_compute_topology_weights(edge_index, edge_weight, Size(x)))
    /\ pc' = "returned"
    /\ UNCHANGED <<x, edge_index, edge_weight, self, request, predictor, calls, history, ncalls>>
    /\ UNCHANGED <<files, locals>>

ComputeConfidence ==
    /\ pc = "called"
    /\ request.op = "_compute_confidence"
    /\ result' = ValueResult(_compute_confidence(request.delta, request.topology_weight))
    /\ pc' = "returned"
    /\ UNCHANGED <<x, edge_index, edge_weight, self, request, predictor, calls, history, ncalls>>
    /\ UNCHANGED <<files, locals>>

\* two calls with the same topology weight: for delta and for other_delta
CalculatePessimisticDelta ==
    /\ pc = "called"
    /\ request.op = "_calculate_pessimistic_delta"
    /\ result' = ValueResult(
          [of_delta |-> _calculate_pessimistic_delta(request.delta, request.topology_weight),
           of_other |-> _calculate_pessimistic_delta(request.other_delta,
                                                     request.topology_weight)])
    /\ pc' = "returned"
    /\ UNCHANGED <<x, edge_index, edge_weight, self, request, predictor, calls, history, ncalls>>
    /\ UNCHANGED <<files, locals>>

NextPure == ComputeTopologyWeights \/ ComputeConfidence \/ CalculatePessimisticDelta

SpecPure == InitPure /\ [][NextPure]_vars

----------------------------------------------------------------------------
(* retrain_gate.py: GateRetrainer.retrain *)

MaxEpochs == 2

\* Model weights are named by a version number: the weights the retrainer was
\* constructed with, and one new version per training epoch that changes them.
OriginalWeights == 0

BackupPath == "backup"
SavePath == "save"

\* the metrics dictionary of _compute_metrics, in thousandths; each entry takes a
\* value that passes and a value that fails the criterion that reads it
MetricChoices ==
    [threshold_crossing_rate : {400, 500},
     healthy_mean_prob : {40, 50},
     overall_mean_prob : {40, 50},
     max_prob : {800, 900},
     failed_mean_prob : {40, 60}]

\* metrics of the model before training
BaselineMetricChoices ==
    {m \in MetricChoices :
        m.healthy_mean_prob = 40 /\ m.overall_mean_prob = 40 /\ m.max_prob = 800}

\* _check_success_criteria: the numbers of the criteria that fail, in order
_check_success_criteria(metrics) ==
    LET c1 == IF metrics.threshold_crossing_rate < 500 THEN <<1>> ELSE << >>
        c2 == IF metrics.healthy_mean_prob >= 50 THEN <<2>> ELSE << >>
        c3 == IF metrics.overall_mean_prob >= 50 THEN <<3>> ELSE << >>
        c4 == IF metrics.max_prob >= 900 THEN <<4>> ELSE << >>
        c5 == IF metrics.failed_mean_prob <= metrics.healthy_mean_prob THEN <<5>> ELSE << >>
        failures == c1 \o c2 \o c3 \o c4 \o c5
    IN [success |-> Len(failures) = 0, failures |-> failures]

\* predictor.save_model(path): the file holds the model's current weights
save_model(selfv, fs, path) == [fs EXCEPT ![path] = Some(selfv.model)]

\* mutation: the checkpoint is read and the model is left as it is
load_model_skipped(selfv, fs, path) == selfv

\* predictor.load_model(path): the model takes the weights held in the file
load_model(selfv, fs, path) == [selfv EXCEPT !.model = fs[path][1]]

\* the except clause of retrain: roll back when a backup file exists
RollbackOnError(selfv, fs) ==
    IF selfv.backup_path # None /\ fs[selfv.backup_path[1]] # None
    THEN load_model(selfv, fs, selfv.backup_path[1])
    ELSE selfv

\* a GateRetrainer after __init__
NewRetrainer(epochs) ==
    [model |-> OriginalWeights, epochs |-> epochs, backup_path |-> None, pre_metrics |-> None]

RetrainRequests ==
    {[op |-> "retrain", save_path |-> p] : p \in {None, Some(SavePath)}}

\* the file at save_path before the call: absent, or a checkpoint of other weights
SaveFileChoices == {None, Some(-1)}

NewLocals == [epoch |-> 0, saturated |-> FALSE, post_metrics |-> None]

InitRetrain ==
    /\ x = << >>
    /\ edge_index = << >>
    /\ edge_weight = << >>
    /\ \E e \in 0..MaxEpochs : self = NewRetrainer(e)
    /\ request \in RetrainRequests
    /\ predictor = [kind |-> "none", table |-> {}]
    /\ calls = << >>
    /\ result = NoResult
    /\ pc = "called"
    /\ history = << >>
    /\ ncalls = 1
    /\ \E c \in SaveFileChoices :
          files = [q \in {BackupPath, SavePath} |-> IF q = SavePath THEN c ELSE None]
    /\ locals = NewLocals

\* step 1: the backup of the current model is written
Backup ==
    /\ pc = "called"
    /\ request.op = "retrain"
    /\ self' = [self EXCEPT !.backup_path = Some(BackupPath)]
    /\ files' = save_model(self, files, BackupPath)
    /\ pc' = "backed_up"
    /\ UNCHANGED <<x, edge_index, edge_weight, request, predictor, calls, result,
                   history, ncalls, locals>>

\* step 1 when it raises: either os.makedirs raises, before backup_path is
\* assigned, or save_model raises after the assignment; in both cases no backup
\* file exists and the except clause has nothing to roll back
BackupFails ==
    /\ pc = "called"
    /\ request.op = "retrain"
    /\ \E assigned \in BOOLEAN :
          self' = RollbackOnError(IF assigned
                                  THEN [self EXCEPT !.backup_path = Some(BackupPath)]
                                  ELSE self, files)
    /\ result' = ErrorResult("OSError")
    /\ pc' = "returned"
    /\ UNCHANGED <<x, edge_index, edge_weight, request, predictor, calls,
                   history, ncalls, files, locals>>

\* steps 2 to 5: layers frozen, optimizer set up, incidents loaded, baseline
\* metrics computed
Prepare ==
    /\ pc = "backed_up"
    /\ \E m \in BaselineMetricChoices : self' = [self EXCEPT !.pre_metrics = Some(m)]
    /\ pc' = IF self.epochs = 0 THEN "measuring" ELSE "training"
    /\ UNCHANGED <<x, edge_index, edge_weight, request, predictor, calls, result,
                   history, ncalls, files, locals>>

\* step 4 when _load_data raises (no incident, too few labeled nodes, no failed node)
PrepareFails ==
    /\ pc = "backed_up"
    /\ self' = RollbackOnError(self, files)
    /\ result' = ErrorResult("RuntimeError")
    /\ pc' = "returned"
    /\ UNCHANGED <<x, edge_index, edge_weight, request, predictor, calls,
                   history, ncalls, files, locals>>

\* step 6, one iteration: _train_epoch, then _check_gate_saturation and the
\* early stop
TrainEpoch ==
    /\ pc = "training"
    /\ \E w \in {self.model, self.model + 1}, saturated \in BOOLEAN :
          /\ self' = [self EXCEPT !.model = w]
          /\ locals' = [locals EXCEPT !.epoch = @ + 1, !.saturated = saturated]
          /\ pc' = IF saturated \/ locals.epoch + 1 = self.epochs
                    THEN "measuring" ELSE "training"
    /\ UNCHANGED <<x, edge_index, edge_weight, request, predictor, calls, result,
                   history, ncalls, files>>

\* step 6 when an epoch raises, after an optimizer step or before it
TrainFails ==
    /\ pc = "training"
    /\ \E w \in {self.model, self.model + 1} :
          self' = RollbackOnError([self EXCEPT !.model = w], files)
    /\ locals' = [locals EXCEPT !.epoch = @ + 1]
    /\ result' = ErrorResult("RuntimeError")
    /\ pc' = "returned"
    /\ UNCHANGED <<x, edge_index, edge_weight, request, predictor, calls,
                   history, ncalls, files>>

\* steps 7 and 8: post-training metrics, the success criteria, then the save
\* and return True, or the rollback and return False
Validate ==
    /\ pc = "measuring"
    /\ \E m \in IF self.model = OriginalWeights THEN {self.pre_metrics[1]} ELSE MetricChoices :
          LET chk == _check_success_criteria(m)
          IN /\ locals' = [locals EXCEPT !.post_metrics = Some(m)]
             /\ IF chk.success
                THEN IF request.save_path = None
                     THEN /\ result' = ValueResult(TRUE)
                          /\ UNCHANGED <<self, files>>
                     ELSE \E written \in BOOLEAN :
                            IF written
                            THEN /\ files' = save_model(self, files, request.save_path[1])
                                 /\ result' = ValueResult(TRUE)
                                 /\ UNCHANGED self
                            ELSE /\ self' = RollbackOnError(self, files)
                                 /\ result' = ErrorResult("OSError")
                                 /\ UNCHANGED files
                ELSE /\ self' = load_model(self, files, self.backup_path[1])
                     /\ result' = ValueResult(FALSE)
                     /\ UNCHANGED files
    /\ pc' = "returned"
    /\ UNCHANGED <<x, edge_index, edge_weight, request, predictor, calls, history, ncalls>>

NextRetrain ==
    Backup \/ BackupFails \/ Prepare \/ PrepareFails \/ TrainEpoch \/ TrainFails \/ Validate

SpecRetrain == InitRetrain /\ [][NextRetrain]_vars

----------------------------------------------------------------------------
(* Properties of run_simulation *)

Returned == pc = "returned"
SimReturned == Returned /\ request.op = "run_simulation"
SimReported == SimReturned /\ result.kind = "report"
Rep == result.report[1]
IsFailed(i) == InList(i, request.failed_nodes)

\* the predictor's answer to the k-th call of the last operation
AnswerTo(k) == (CHOOSE e \in predictor.table : e.input = calls[k]).response

\* C1: every node listed in failed_nodes gets the fixed sentinel interpretation
\* (FAILURE_SOURCE, critical, confidence 1.0, label high), whatever its delta,
\* its topology weight, the failure mode and the pessimistic flag.
C1_SourceSentinel ==
    SimReported =>
        \A k \in 1..Len(Rep.nodes) :
            IsFailed(Rep.nodes[k].node_id) =>
                LET it == Rep.nodes[k].interpretation
                IN /\ it.risk_type = "FAILURE_SOURCE"
                   /\ it.risk_level = "critical"
                   /\ it.confidence.n = it.confidence.d
                   /\ it.confidence_label = "high"

\* a pessimistic report in which a forced-failure node has delta 0 (which would
\* otherwise be UNAFFECTED / low) and another has a large negative delta
C1_Witness ==
    /\ SimReported
    /\ request.pessimistic_mode
    /\ request.failure_mode = "CONTAMINATION"
    /\ \E k, l \in 1..Len(Rep.nodes) :
          /\ IsFailed(Rep.nodes[k].node_id) /\ Rep.nodes[k].delta = 0
          /\ IsFailed(Rep.nodes[l].node_id) /\ Rep.nodes[l].delta < -200

\* C2: in every report each node record has delta = simulated - baseline, with
\* baseline and simulated dimension 0 of the predictor's output for that node on
\* the unmodified and on the counterfactual graph, and its baseline, simulated
\* and delta are raw.baseline, raw.simulated and raw.deltas at node_id.
C2_DeltaIsDifference ==
    SimReported =>
        \A k \in 1..Len(Rep.nodes) :
            LET r == Rep.nodes[k]
                i == r.node_id
            IN /\ r.delta = r.simulated - r.baseline
               /\ calls[1] = PredInput(x, edge_index, edge_weight)
               /\ r.baseline = AnswerTo(1).out[i].dim0
               /\ r.simulated = AnswerTo(2).out[i].dim0
               /\ r.baseline = Rep.raw.baseline[i]
               /\ r.simulated = Rep.raw.simulated[i]
               /\ r.delta = Rep.raw.deltas[i]

\* a report whose records were reordered by the sort and carry deltas of both signs
C2_Witness ==
    /\ SimReported
    /\ Rep.nodes[1].node_id # 0
    /\ \E k, l \in 1..Len(Rep.nodes) : Rep.nodes[k].delta > 0 /\ Rep.nodes[l].delta < 0

\* C3: the nodes list has exactly one record per node index 0..N-1, in order of
\* descending |delta|, records of equal |delta| in ascending node index.
C3_SortedByAbsDelta ==
    SimReported =>
        /\ Len(Rep.nodes) = Size(x)
        /\ {Rep.nodes[k].node_id : k \in 1..Len(Rep.nodes)} = DOMAIN x
        /\ \A k, l \in 1..Len(Rep.nodes) :
              k < l =>
                 \/ Abs(Rep.nodes[k].delta) > Abs(Rep.nodes[l].delta)
                 \/ /\ Abs(Rep.nodes[k].delta) = Abs(Rep.nodes[l].delta)
                    /\ Rep.nodes[k].node_id < Rep.nodes[l].node_id

\* a report in which node 0 was moved to the end and the two records in front
\* tie with deltas of opposite sign
C3_Witness ==
    /\ SimReported
    /\ Rep.nodes[Len(Rep.nodes)].node_id = 0
    /\ Rep.nodes[1].delta = -Rep.nodes[2].delta
    /\ Rep.nodes[1].delta # 0
    /\ Rep.nodes[1].node_id < Rep.nodes[2].node_id

\* C4 (as claimed): affected_count is the number of nodes that are not in
\* failed_nodes and have |delta| > 0.01.
C4_AffectedExcludesSources ==
    SimReported =>
        Rep.summary.affected_count =
            Cardinality({i \in DOMAIN x : ~IsFailed(i) /\ Abs(Rep.raw.deltas[i]) > 10})

\* C5 (as claimed): with at least one non-failed node, max_delta is the largest
\* |delta| among the nodes that are not in failed_nodes.
C5_MaxDeltaExcludesSources ==
    (SimReported /\ \E i \in DOMAIN x : ~IsFailed(i)) =>
        Rep.summary.max_delta =
            MaxOf({Abs(Rep.raw.deltas[i]) : i \in {j \in DOMAIN x : ~IsFailed(j)}})

\* C6: run_simulation, node_perturbation_analysis, edge_occlusion_analysis and
\* counterfactual_analysis leave the caller's node features, edge list and edge
\* weights as they were before the call.
C6_CallerGraphUnchanged ==
    [][pc = "called" => (x' = x /\ edge_index' = edge_index /\ edge_weight' = edge_weight)]_vars

\* run_simulation has returned a report after handing the predictor a modified
\* copy: the failed node's status is 0 in the copy and still set in the caller's x
C6_Witness ==
    /\ SimReported
    /\ request.failed_nodes = <<0, 1>>
    /\ calls[2].x[1][status_col] = 0
    /\ x[1][status_col] = 90
    /\ calls[2].edge_index = edge_index

OutOfRangeRequest ==
    IF request.op = "run_simulation"
    THEN \E k \in 1..Len(request.failed_nodes) : request.failed_nodes[k] \notin DOMAIN x
    ELSE request.op # "none" /\ request.target_node_idx \notin DOMAIN x

\* C8 (as claimed): an index of failed_nodes outside [0, N), or a target index
\* outside [0, N), makes the operation fail without invoking the predictor and
\* without a report or result list.
C8_OutOfRangeRejected ==
    (Returned /\ OutOfRangeRequest) => (result.kind = "error" /\ calls = << >>)

\* the completed run_simulation calls on the engine, oldest first
Completed ==
    IF SimReturned THEN Append(history, [args |-> CurrentArgs, result |-> result])
    ELSE history

\* C7: with a deterministic predictor, two run_simulation calls with identical
\* inputs on the same engine yield identical reports, also with calls with other
\* inputs in between.
C7_SameInputsSameReport ==
    \A i, j \in 1..Len(Completed) :
        Completed[i].args = Completed[j].args => Completed[i].result = Completed[j].result

\* the third call repeats the first after a call on another graph, and its
\* report has a node that is not a source with a non-zero delta
C7_Witness ==
    /\ SimReported
    /\ Len(history) = 2
    /\ history[1].args = CurrentArgs
    /\ history[2].args.edge_index # edge_index
    /\ history[2].result.kind = "report"
    /\ \E k \in 1..Len(Rep.nodes) :
          ~Rep.nodes[k].is_failed_source /\ Rep.nodes[k].delta # 0

\* C9 (as claimed): run_simulation with an empty failed_nodes list produces no report.
C9_EmptyFailedRejected ==
    (SimReturned /\ request.failed_nodes = << >>) => result.kind # "report"

\* a predictor answer that is an exception or has a malformed shape for n nodes
BadAnswer(a, n) ==
    \/ a.kind = "raise"
    \/ Size(a.out) # n
    \/ \E i \in DOMAIN a.out : a.out[i].dims = 0

\* C10 (as claimed): when a predictor call raises or returns a malformed output,
\* run_simulation fails at once: that call is the last one and no report is returned.
C10_PredictorFailureSurfaced ==
    SimReturned =>
        \A k \in 1..Len(calls) :
            BadAnswer(AnswerTo(k), Size(x)) => (Len(calls) = k /\ result.kind = "error")

----------------------------------------------------------------------------
(* Properties of the interpretation of a node that is not a source *)

\* the risk-type table: failure mode, sign of delta, risk type
RiskTable ==
    {<<"DEMAND_LOSS", -1, "STAGNATION_RISK">>, <<"DEMAND_LOSS", 1, "LOAD_REDISTRIBUTION">>,
     <<"SUPPLY_CUT", -1, "SUPPLY_ISOLATION">>, <<"SUPPLY_CUT", 1, "PRESSURE_SURGE">>,
     <<"CONTAMINATION", -1, "BACKFLOW_RISK">>, <<"CONTAMINATION", 1, "CONTAMINATION_SPREAD">>,
     <<"CONTROL_FAILURE", -1, "CONTROL_BLIND_SPOT">>,
     <<"CONTROL_FAILURE", 1, "CONTROL_INSTABILITY">>,
     <<"NONE", -1, "IMPACT_DECREASE">>, <<"NONE", 1, "IMPACT_INCREASE">>}

Sign(v) == IF v < 0 THEN -1 ELSE IF v > 0 THEN 1 ELSE 0

\* C11: a node that is not a forced-failure source has risk type UNAFFECTED when
\* |delta| < 0.01, whatever the failure mode, and otherwise the risk type the
\* table gives for (failure mode, sign of delta); the interpretation's
\* failure_mode is the requested mode.
C11_RiskTypeTable ==
    SimReported =>
        \A k \in 1..Len(Rep.nodes) :
            LET r == Rep.nodes[k]
                it == r.interpretation
            IN ~IsFailed(r.node_id) =>
                  /\ Abs(r.delta) < 10 => it.risk_type = "UNAFFECTED"
                  /\ Abs(r.delta) >= 10 =>
                        <<request.failure_mode, Sign(r.delta), it.risk_type>> \in RiskTable
                  /\ it.failure_mode = request.failure_mode

\* a SUPPLY_CUT report with, next to the source, a node with delta 0.006
\* (UNAFFECTED) and a node with delta 0.012 (PRESSURE_SURGE)
C11_Witness ==
    /\ SimReported
    /\ request.failure_mode = "SUPPLY_CUT"
    /\ request.failed_nodes = <<0>>
    /\ \E k, l \in 1..Len(Rep.nodes) :
          /\ ~IsFailed(Rep.nodes[k].node_id) /\ Rep.nodes[k].delta = 6
          /\ Rep.nodes[k].interpretation.risk_type = "UNAFFECTED"
          /\ ~IsFailed(Rep.nodes[l].node_id) /\ Rep.nodes[l].delta = 12
          /\ Rep.nodes[l].interpretation.risk_type = "PRESSURE_SURGE"

\* C12 (as claimed): the severity of a node that is not a source is the tier of
\* the effective magnitude (the amplified value in pessimistic mode when
\* delta > 0, else |delta|), replaced in pessimistic mode by a non-normal alert
\* level; for all deltas, |delta| < 0.01 included.
C12_SeverityIsTierOfMagnitude ==
    SimReported =>
        \A k \in 1..Len(Rep.nodes) :
            LET r == Rep.nodes[k]
                it == r.interpretation
                tier == IF request.pessimistic_mode /\ r.delta > 0
                        THEN TierOfSqrt(it.pessimistic_delta)
                        ELSE TierOfAbs(Abs(r.delta))
            IN ~IsFailed(r.node_id) =>
                  it.risk_level = IF request.pessimistic_mode /\ it.alert_level # "normal"
                                  THEN it.alert_level ELSE tier

\* C13 (as claimed): in every report each node's severity is low, medium, high
\* or critical, its confidence label low, medium or high, and its alert level
\* normal, elevated, high or critical.
C13_LabelRanges ==
    SimReported =>
        \A k \in 1..Len(Rep.nodes) :
            LET it == Rep.nodes[k].interpretation
            IN /\ it.risk_level \in {"low", "medium", "high", "critical"}
               /\ it.confidence_label \in {"low", "medium", "high"}
               /\ it.alert_level \in {"normal", "elevated", "high", "critical"}

----------------------------------------------------------------------------
(* Properties of the engine's pure helpers *)

HelperReturned(op) == Returned /\ request.op = op
Value == result.report[1]

\* C14: confidence = clamp(min(2 * |delta|, 1) * topology_weight, 0, 1), which
\* lies in [0, 1]; the label is low below 0.2, medium from 0.2 and below 0.5,
\* high otherwise.
C14_ConfidenceFormula ==
    HelperReturned("_compute_confidence") =>
        LET c == Value.confidence
            w == request.topology_weight
            twice == IF 2 * Abs(request.delta) < 1000 THEN 2 * Abs(request.delta) ELSE 1000
            \* min(2 * |delta|, 1) * topology_weight = pn / pd
            pn == twice * w.n
            pd == 1000 * w.d
        IN /\ c.d > 0 /\ 0 <= c.n /\ c.n <= c.d
           /\ pn > pd => c.n = c.d
           /\ pn < 0 => c.n = 0
           /\ (0 <= pn /\ pn <= pd) => c.n * pd = pn * c.d
           /\ Value.label = "low" <=> 5 * c.n < c.d
           /\ Value.label = "medium" <=> (5 * c.n >= c.d /\ 2 * c.n < c.d)
           /\ Value.label = "high" <=> 2 * c.n >= c.d

\* the confidence of delta -0.15 on a node of weight 3/4: 0.225, medium
C14_Witness ==
    /\ HelperReturned("_compute_confidence")
    /\ request.delta = -150
    /\ request.topology_weight = [n |-> 3, d |-> 4]
    /\ Value.label = "medium"
    /\ 1000 * Value.confidence.n = 225 * Value.confidence.d

\* v is the amplification of (delta, w) as the spec states it: v.pessimistic is
\* sgn * sqrt(n/d), so it is compared through its square
AmplifiedAsStated(delta, w, v) ==
    LET r == v.pessimistic
        \* (sqrt(delta) * 2 * w)^2 = sq_n / sq_d, delta in thousandths
        sq_n == delta * w.n * w.n
        sq_d == 250 * w.d * w.d
        \* r >= sqrt(p/q)
        AtLeast(p, q) == r.sgn = 1 /\ q * r.n >= p * r.d
    IN IF delta > 0
       THEN /\ r.d > 0
            /\ sq_n > sq_d => (r.sgn = 1 /\ r.n = r.d)
            /\ sq_n <= sq_d => (r.n * sq_d = sq_n * r.d /\ r.sgn = Sign(sq_n))
            /\ v.alert_level = "critical" <=> AtLeast(64, 100)
            /\ v.alert_level = "high" <=> (AtLeast(25, 100) /\ ~AtLeast(64, 100))
            /\ v.alert_level = "elevated" <=> (AtLeast(4, 100) /\ ~AtLeast(25, 100))
            /\ v.alert_level = "normal" <=> ~AtLeast(4, 100)
       ELSE \* 0.1 * delta = sgn(delta) * sqrt(delta^2 / 10000^2)
            /\ r.sgn = Sign(delta)
            /\ r.n = delta * delta /\ r.d = 10000 * 10000
            /\ v.alert_level = "normal"

\* C15: for delta > 0 the amplified value is min(sqrt(delta) * 2 * weight, 1.0)
\* with alert level critical from 0.8, high from 0.5, elevated from 0.2, else
\* normal; for delta <= 0 it is 0.1 * delta with alert level normal.
C15_PessimisticAmplification ==
    HelperReturned("_calculate_pessimistic_delta") =>
        /\ AmplifiedAsStated(request.delta, request.topology_weight, Value.of_delta)
        /\ AmplifiedAsStated(request.other_delta, request.topology_weight, Value.of_other)

\* weight 1/2: delta 0.14 amplified to sqrt(0.14), elevated, and delta -0.15
\* suppressed to -0.015, normal
C15_Witness ==
    /\ HelperReturned("_calculate_pessimistic_delta")
    /\ request.topology_weight = [n |-> 1, d |-> 2]
    /\ request.delta = 140 /\ request.other_delta = -150
    /\ Value.of_delta.alert_level = "elevated"
    /\ Value.of_delta.pessimistic.sgn = 1
    /\ 100 * Value.of_delta.pessimistic.n = 14 * Value.of_delta.pessimistic.d
    /\ Value.of_other.pessimistic.sgn = -1
    /\ Value.of_other.pessimistic.n = 22500
    /\ Value.of_other.alert_level = "normal"

\* C16: for a fixed topology weight in [0, 1] the amplified value is
\* non-decreasing in delta over delta > 0, and it never exceeds 1.0.
C16_AmplificationMonotoneBounded ==
    HelperReturned("_calculate_pessimistic_delta") =>
        LET a == Value.of_delta.pessimistic
            b == Value.of_other.pessimistic
        IN /\ (0 < request.delta /\ request.delta <= request.other_delta) =>
                 (a.sgn <= b.sgn /\ (a.sgn = 1 => a.n * b.d <= b.n * a.d))
           /\ a.sgn = 1 => a.n <= a.d
           /\ b.sgn = 1 => b.n <= b.d

\* weight 1: delta 0.15 amplified to sqrt(0.6) < 1 and delta 0.6 capped at 1.0
C16_Witness ==
    /\ HelperReturned("_calculate_pessimistic_delta")
    /\ request.topology_weight = [n |-> 1, d |-> 1]
    /\ request.delta = 150 /\ request.other_delta = 600
    /\ Value.of_delta.pessimistic.n < Value.of_delta.pessimistic.d
    /\ Value.of_other.pessimistic.sgn = 1
    /\ Value.of_other.pessimistic.n = Value.of_other.pessimistic.d

\* the weight the calculator uses for edge k (from 1), in tenths
EdgeWeightAt(k) == IF k <= Len(edge_weight) THEN edge_weight[k] ELSE default_edge_weight

\* how many ends of edge k are node i
Ends(k, i) == (IF edge_index[k][1] = i THEN 1 ELSE 0) + (IF edge_index[k][2] = i THEN 1 ELSE 0)

\* degree of node i, incoming plus outgoing
Degree(i) == SumTo([k \in 0..(Len(edge_index) - 1) |-> Ends(k + 1, i)], Len(edge_index))

\* degree * average incident weight of node i: the sum of its incident weights,
\* 0 for a node of degree 0
RawWeight(i) ==
    IF Degree(i) = 0 THEN 0
    ELSE SumTo([k \in 0..(Len(edge_index) - 1) |-> Ends(k + 1, i) * EdgeWeightAt(k + 1)],
               Len(edge_index))

\* C17: the topology weight of node i is (degree * average incident weight) of i
\* divided by the largest such value over the nodes; when that largest value is
\* 0 every node gets 0.5; the computation does not raise and every weight lies
\* in [0, 1].
C17_TopologyWeights ==
    HelperReturned("_compute_topology_weights") =>
        /\ result.kind = "value"
        /\ DOMAIN Value = DOMAIN x
        /\ \A i \in DOMAIN x :
              /\ Value[i].d > 0 /\ 0 <= Value[i].n /\ Value[i].n <= Value[i].d
              /\ (\A j \in DOMAIN x : RawWeight(j) = 0) => 2 * Value[i].n = Value[i].d
              /\ \A m \in DOMAIN x :
                    (RawWeight(m) > 0 /\ \A j \in DOMAIN x : RawWeight(j) <= RawWeight(m)) =>
                        Value[i].n * RawWeight(m) = RawWeight(i) * Value[i].d

\* the weights of the graph with parallel edges: one node at 1, the others
\* strictly between 0 and 1 and different
C17_Witness ==
    /\ HelperReturned("_compute_topology_weights")
    /\ edge_index = FanIn.edge_index
    /\ Value[NumNodes - 1].n = Value[NumNodes - 1].d
    /\ 0 < Value[0].n /\ Value[0].n < Value[0].d
    /\ 0 < Value[1].n /\ Value[1].n < Value[1].d
    /\ Value[0].n * Value[1].d # Value[1].n * Value[0].d

----------------------------------------------------------------------------
(* Properties of causal_attribution.py *)

CausalReturned(op) == Returned /\ request.op = op /\ result.kind = "results"
Results == Rep.results
Target == request.target_node_idx

\* the target's impact in the predictor's answer to the input inp, if the
\* operation made that call after the baseline call
ImpactIs(inp, impact) ==
    \E k \in 2..Len(calls) :
        /\ calls[k] = inp
        /\ impact = RowMean(AnswerTo(k).out[Target])

\* x with the neighbor's status, level and flow columns at 0
Perturbed(nb) == [x EXCEPT ![nb][15] = 0, ![nb][13] = 0, ![nb][14] = 0]

\* C18: node_perturbation_analysis on a target with an incoming edge returns
\* exactly one result per distinct upstream neighbor, each with causal_effect =
\* perturbed target impact - baseline target impact, sorted by descending
\* |causal_effect|.
C18_NodePerturbationRanking ==
    (CausalReturned("node_perturbation")
        /\ \E k \in 1..Len(edge_index) : edge_index[k][2] = Target) =>
        LET upstream == {edge_index[k][1] : k \in {j \in 1..Len(edge_index) :
                                                      edge_index[j][2] = Target}}
        IN /\ Len(Results) = Cardinality(upstream)
           /\ {Results[k].neighbor_idx : k \in 1..Len(Results)} = upstream
           /\ \A k \in 1..Len(Results) :
                 LET r == Results[k]
                 IN /\ r.baseline_impact = RowMean(AnswerTo(1).out[Target])
                    /\ ImpactIs(PredInput(Perturbed(r.neighbor_idx), edge_index, edge_weight),
                                r.perturbed_impact)
                    /\ r.causal_effect.d > 0
                    /\ r.causal_effect.n * r.perturbed_impact.d * r.baseline_impact.d =
                         (r.perturbed_impact.n * r.baseline_impact.d
                            - r.baseline_impact.n * r.perturbed_impact.d) * r.causal_effect.d
           /\ \A k, l \in 1..Len(Results) :
                 k < l => Abs(Results[k].causal_effect.n) * Results[l].causal_effect.d
                            >= Abs(Results[l].causal_effect.n) * Results[k].causal_effect.d

\* the target with two parallel edges from node 0 and one from node 1: two
\* results, node 1 ranked first because its effect is larger in magnitude
C18_Witness ==
    /\ CausalReturned("node_perturbation")
    /\ edge_index = FanIn.edge_index
    /\ Target = NumNodes - 1
    /\ Len(Results) = 2
    /\ Results[1].neighbor_idx = 1 /\ Results[2].neighbor_idx = 0
    /\ Results[2].causal_effect.n # 0
    /\ Abs(Results[1].causal_effect.n) * Results[2].causal_effect.d
         > Abs(Results[2].causal_effect.n) * Results[1].causal_effect.d

\* the indices (from 0) of the edges into the target
IncomingIdx == {k - 1 : k \in {j \in 1..Len(edge_index) : edge_index[j][2] = Target}}

\* the edge list and the weights without edge e (from 0)
WithoutEdge(seq, e) == [k \in 1..(Len(seq) - 1) |-> IF k <= e THEN seq[k] ELSE seq[k + 1]]

\* C19: edge_occlusion_analysis on a target with an incoming edge returns exactly
\* one result per incoming edge, each with causal_effect = target impact with
\* that single edge removed - baseline target impact, sorted by ascending
\* causal_effect; an edge is flagged critical cascade path iff its
\* causal_effect < -0.05.
C19_EdgeOcclusionRanking ==
    (CausalReturned("edge_occlusion") /\ IncomingIdx # {}) =>
        /\ Len(Results) = Cardinality(IncomingIdx)
        /\ {Results[k].edge_idx : k \in 1..Len(Results)} = IncomingIdx
        /\ \A k \in 1..Len(Results) :
              LET r == Results[k]
              IN /\ r.baseline_impact = RowMean(AnswerTo(1).out[Target])
                 /\ ImpactIs(PredInput(x, WithoutEdge(edge_index, r.edge_idx),
                                         WithoutEdge(edge_weight, r.edge_idx)),
                             r.occluded_impact)
                 /\ r.causal_effect.d > 0
                 /\ r.causal_effect.n * r.occluded_impact.d * r.baseline_impact.d =
                      (r.occluded_impact.n * r.baseline_impact.d
                         - r.baseline_impact.n * r.occluded_impact.d) * r.causal_effect.d
                 /\ r.interpretation = "CRITICAL CASCADE PATH"
                      <=> r.causal_effect.n < -50 * r.causal_effect.d
        /\ \A k, l \in 1..Len(Results) :
              k < l => Results[k].causal_effect.n * Results[l].causal_effect.d
                         <= Results[l].causal_effect.n * Results[k].causal_effect.d

\* three incoming edges: the last edge ranked first and flagged, the first edge
\* ranked second with a negative effect and not flagged, the second edge ranked
\* last with a positive effect
C19_Witness ==
    /\ CausalReturned("edge_occlusion")
    /\ edge_index = FanIn.edge_index
    /\ Target = NumNodes - 1
    /\ Len(Results) = 3
    /\ Results[1].edge_idx = 2 /\ Results[2].edge_idx = 0 /\ Results[3].edge_idx = 1
    /\ Results[1].interpretation = "CRITICAL CASCADE PATH"
    /\ Results[2].interpretation # "CRITICAL CASCADE PATH"
    /\ Results[2].causal_effect.n < 0
    /\ Results[3].causal_effect.n > 0

\* C20: the entry ranked first by node_perturbation_analysis is reported as the
\* node that causes the target's risk when its causal effect exceeds 0.05;
\* otherwise the conclusion is that no single node dominates.
C20_MostCausalConclusion ==
    (CausalReturned("node_perturbation") /\ Results # << >>) =>
        LET top == Results[1].causal_effect
        IN /\ \A k \in 1..Len(Results) :
                 Abs(top.n) * Results[k].causal_effect.d
                   >= Abs(Results[k].causal_effect.n) * top.d
           /\ top.n > 50 * top.d => Rep.conclusion = "node causes the target's risk"
           /\ top.n <= 50 * top.d => Rep.conclusion = "no single upstream node dominates"

\* two results, the first with an effect above 0.05, reported as the cause
C20_Witness ==
    /\ CausalReturned("node_perturbation")
    /\ Len(Results) = 2
    /\ Results[1].causal_effect.n > 50 * Results[1].causal_effect.d
    /\ Results[2].causal_effect.n < 0
    /\ Rep.conclusion = "node causes the target's risk"

NoIncoming == \A k \in 1..Len(edge_index) : edge_index[k][2] # Target

\* the baseline answer is an array that has the target's row
BaselineUsable ==
    /\ AnswerTo(1).kind = "ok"
    /\ PyIndex(Target, Size(AnswerTo(1).out)) # None

\* C21: node_perturbation_analysis and edge_occlusion_analysis on a target with no
\* incoming edge return an empty result list with the no-upstream-connectivity
\* signal, without raising, and make no prediction beyond the baseline one.
C21_NoUpstreamIsEmptyResult ==
    (Returned /\ request.op \in {"node_perturbation", "edge_occlusion"} /\ NoIncoming) =>
        /\ Len(calls) = 1
        /\ calls[1] = PredInput(x, edge_index, edge_weight)
        /\ BaselineUsable => result.kind = "results"
        /\ result.kind = "results" =>
              /\ Results = << >>
              /\ Rep.conclusion = IF request.op = "node_perturbation"
                                  THEN "no incoming connections"
                                  ELSE "no incoming edges"

\* a graph with edges, none of them into the target: the empty list with the signal
C21_Witness ==
    /\ CausalReturned("edge_occlusion")
    /\ NoIncoming
    /\ Len(edge_index) > 0
    /\ Target \in 0..(NumNodes - 1)
    /\ Results = << >>
    /\ Rep.conclusion = "no incoming edges"

\* the impact is dimension 0 of the target's row in the k-th predictor answer
IsDim0(impact, k) ==
    /\ k \in 1..Len(calls)
    /\ impact.d > 0
    /\ impact.n = AnswerTo(k).out[PyIndex(Target, Size(AnswerTo(k).out))[1]].dim0 * impact.d

\* C22 (as claimed): every impact value reported is dimension 0 of the
\* predictor's output for the node: baseline and simulated of run_simulation,
\* and the baseline, perturbed, occluded, current and repaired target impacts of
\* the causal-attribution operations.
C22_ImpactIsDimensionZero ==
    /\ SimReported =>
          \A k \in 1..Len(Rep.nodes) :
              /\ Rep.nodes[k].baseline = AnswerTo(1).out[Rep.nodes[k].node_id].dim0
              /\ Rep.nodes[k].simulated = AnswerTo(2).out[Rep.nodes[k].node_id].dim0
    /\ CausalReturned("node_perturbation") =>
          \A k \in 1..Len(Results) :
              /\ IsDim0(Results[k].baseline_impact, 1)
              /\ \E c \in 2..Len(calls) : IsDim0(Results[k].perturbed_impact, c)
    /\ CausalReturned("edge_occlusion") =>
          \A k \in 1..Len(Results) :
              /\ IsDim0(Results[k].baseline_impact, 1)
              /\ \E c \in 2..Len(calls) : IsDim0(Results[k].occluded_impact, c)
    /\ CausalReturned("counterfactual") =>
          /\ IsDim0(Rep.current_impact, 1)
          /\ IsDim0(Rep.repaired_impact, 2)

IncomingOfTarget == {k \in 1..Len(edge_index) : edge_index[k][2] = Target}

\* C23: an operation that completes has invoked the predictor exactly 2 times
\* (run_simulation, whatever failed_nodes and the pessimistic flag; and
\* counterfactual_analysis), 1 + the number of distinct upstream neighbors of
\* the target (node_perturbation_analysis), or 1 + the number of incoming edges
\* of the target (edge_occlusion_analysis); a prediction is made again even when
\* its input equals an earlier one.
C23_PredictorInvocations ==
    /\ SimReported => Len(calls) = 2
    /\ CausalReturned("counterfactual") => Len(calls) = 2
    /\ CausalReturned("node_perturbation") =>
          Len(calls) = 1 + Cardinality({edge_index[k][1] : k \in IncomingOfTarget})
    /\ CausalReturned("edge_occlusion") => Len(calls) = 1 + Cardinality(IncomingOfTarget)

\* three incoming edges from two distinct neighbors: three predictions, on
\* three different inputs
C23_Witness ==
    /\ CausalReturned("node_perturbation")
    /\ Cardinality(IncomingOfTarget) = 3
    /\ Len(calls) = 3
    /\ \A k, l \in 1..Len(calls) : k < l => calls[k] # calls[l]

\* a repair that changes nothing: the second prediction is still made
C23_EqualInputsWitness ==
    /\ CausalReturned("counterfactual")
    /\ Len(calls) = 2
    /\ calls[1] = calls[2]

\* the nodes that the indices in failed_nodes designate (a negative index
\* counts from the end)
ListedNodes ==
    {PyIndex(request.failed_nodes[k], Size(x))[1] : k \in 1..Len(request.failed_nodes)}

\* C24: in run_simulation the counterfactual predictor call gets the graph of
\* the baseline call with only the status feature (column 12) of the nodes
\* listed in failed_nodes changed, to 0.0; every other feature, the edge list
\* and the edge weights are the same in both calls.
C24_CounterfactualFrame ==
    (SimReturned /\ Len(calls) = 2) =>
        /\ calls[1] = PredInput(x, edge_index, edge_weight)
        /\ calls[2].edge_index = calls[1].edge_index
        /\ calls[2].edge_weight = calls[1].edge_weight
        /\ DOMAIN calls[2].x = DOMAIN calls[1].x
        /\ \A i \in DOMAIN x :
              /\ DOMAIN calls[2].x[i] = DOMAIN calls[1].x[i]
              /\ \A c \in DOMAIN x[i] :
                    calls[2].x[i][c] = IF c = 12 /\ i \in ListedNodes THEN 0
                                       ELSE calls[1].x[i][c]

\* two failed nodes, one of them with other features that are not 0: a report
\* was returned and the second call changed their status only
C24_Witness ==
    /\ SimReported
    /\ request.failed_nodes = <<0, 1>>
    /\ calls[1].x[1][12] # 0 /\ calls[2].x[1][12] = 0
    /\ calls[2].x[1][13] # 0
    /\ calls[2].x[2] = calls[1].x[2]
    /\ Len(edge_index) > 0

\* the predictor's answer to the input inp (an input the predictor was given)
AnswerFor(inp) == (CHOOSE e \in predictor.table : e.input = inp).response

\* the input of the experiment on neighbor k, and its result, from the caller's
\* graph and k alone
PerturbedInput(k) == PredInput(Perturbed(k), edge_index, edge_weight)
PerturbationOf(k) ==
    LET base == RowMean(AnswerTo(1).out[Target])
        pert == RowMean(AnswerFor(PerturbedInput(k)).out[Target])
    IN [neighbor_idx |-> k, baseline_impact |-> base, perturbed_impact |-> pert,
        causal_effect |-> QSub(pert, base)]

\* the input of the experiment on edge e (from 0), and its result, from the
\* caller's graph and e alone
OccludedInput(e) ==
    PredInput(x, WithoutEdge(edge_index, e), WithoutEdge(edge_weight, e))
OcclusionOf(e) ==
    LET base == RowMean(AnswerTo(1).out[Target])
        occ == RowMean(AnswerFor(OccludedInput(e)).out[Target])
    IN [edge_idx |-> e, baseline_impact |-> base, occluded_impact |-> occ,
        causal_effect |-> QSub(occ, base)]
OcclusionPart(r) ==
    [edge_idx |-> r.edge_idx, baseline_impact |-> r.baseline_impact,
     occluded_impact |-> r.occluded_impact, causal_effect |-> r.causal_effect]

\* C25: the experiments of causal attribution are independent: the graph
\* perturbed for neighbor k is the caller's graph with only columns 15, 13, 14
\* of k at 0, the graph occluded for edge e is the caller's edge list and weights
\* minus exactly edge e, and the set of results is the set of the experiments'
\* own results, whatever the order in which they were made.
C25_ExperimentsIndependent ==
    /\ (CausalReturned("node_perturbation") /\ Results # << >>) =>
          LET upstream == {edge_index[k][1] : k \in IncomingOfTarget}
          IN /\ calls[1] = PredInput(x, edge_index, edge_weight)
             /\ {calls[c] : c \in 2..Len(calls)} = {PerturbedInput(k) : k \in upstream}
             /\ {Results[j] : j \in 1..Len(Results)} = {PerturbationOf(k) : k \in upstream}
    /\ (CausalReturned("edge_occlusion") /\ Results # << >>) =>
          /\ calls[1] = PredInput(x, edge_index, edge_weight)
          /\ {calls[c] : c \in 2..Len(calls)} = {OccludedInput(e) : e \in IncomingIdx}
          /\ {OcclusionPart(Results[j]) : j \in 1..Len(Results)} =
                {OcclusionOf(e) : e \in IncomingIdx}

\* two neighbors: the experiment on the second one left the first one's
\* features, which are not all 0, as the caller gave them
C25_Witness ==
    /\ CausalReturned("node_perturbation")
    /\ Len(Results) = 2
    /\ Len(calls) = 3
    /\ calls[2] = PerturbedInput(0) /\ calls[3] = PerturbedInput(1)
    /\ calls[3].x[0] = x[0] /\ x[0][13] # 0
    /\ calls[2].x[1] = x[1] /\ x[1][13] # 0
    /\ Results[1].causal_effect # Results[2].causal_effect

\* C26 (as claimed): whenever some upstream neighbor has a causal effect above
\* 0.05, node_perturbation_analysis concludes that a node causes the target's
\* risk, also when another neighbor has a negative effect of larger magnitude.
C26_PositiveEffectNamesCause ==
    (CausalReturned("node_perturbation")
        /\ \E k \in 1..Len(Results) :
               Results[k].causal_effect.n > 50 * Results[k].causal_effect.d) =>
        Rep.conclusion = "node causes the target's risk"

\* the ordering of severities: low < medium = elevated < high < critical
SeverityRank(level) ==
    IF level = "low" THEN 0
    ELSE IF level \in {"medium", "elevated"} THEN 1
    ELSE IF level = "high" THEN 2
    ELSE 3

\* the topology weight run_simulation computed for node i
TopologyWeightOf(i) == _compute_topology_weights(edge_index, edge_weight, Size(x))[i]

\* C27 (as claimed): for a node that is not a source and has delta > 0, the
\* severity reported in pessimistic mode is never lower than the severity
\* standard mode reports for the same delta and topology weight.
C27_PessimisticNeverLower ==
    (SimReported /\ request.pessimistic_mode) =>
        \A k \in 1..Len(Rep.nodes) :
            LET r == Rep.nodes[k]
                standard == _interpret_delta(r.delta, FALSE, request.failure_mode,
                                             TopologyWeightOf(r.node_id), FALSE)
            IN (~r.is_failed_source /\ r.delta > 0) =>
                  SeverityRank(r.interpretation.risk_level) >= SeverityRank(standard.risk_level)

\* C28 (as claimed): in pessimistic mode, for a node that is not a source and
\* has delta > 0, the reported severity is at least the tier of the amplified
\* value it was derived from.
C28_OverrideNeverLowers ==
    (SimReported /\ request.pessimistic_mode) =>
        \A k \in 1..Len(Rep.nodes) :
            LET r == Rep.nodes[k]
                it == r.interpretation
            IN (~r.is_failed_source /\ r.delta > 0 /\ it.alert_level # "normal") =>
                  SeverityRank(it.risk_level) >= SeverityRank(TierOfSqrt(it.pessimistic_delta))

\* equality of two values sgn * sqrt(n/d)
EqSqrt(a, b) == LeqSqrt(a, b) /\ LeqSqrt(b, a)

\* C29 (as claimed): in a pessimistic report each node record's pessimistic_delta
\* equals the pessimistic_delta of the record's interpretation, for the failed
\* nodes as for the others, and summary.max_pessimistic_delta is the maximum of
\* the interpretations' pessimistic deltas.
C29_RecordMatchesInterpretation ==
    (SimReported /\ request.pessimistic_mode) =>
        /\ \A k \in 1..Len(Rep.nodes) :
              EqSqrt(Rep.nodes[k].pessimistic_delta[1],
                     Rep.nodes[k].interpretation.pessimistic_delta)
        /\ \A k \in 1..Len(Rep.nodes) :
              LeqSqrt(Rep.nodes[k].interpretation.pessimistic_delta,
                      Rep.summary.max_pessimistic_delta[1])
        /\ \E k \in 1..Len(Rep.nodes) :
              EqSqrt(Rep.nodes[k].interpretation.pessimistic_delta,
                     Rep.summary.max_pessimistic_delta[1])

----------------------------------------------------------------------------
(* Properties of GateRetrainer.retrain *)

\* retrain has ended after computing the post-training metrics
Validated == Returned /\ request.op = "retrain" /\ locals.post_metrics # None
PostMetrics == locals.post_metrics[1]

\* the five success criteria, on the post-training metrics
AllCriteriaPass ==
    /\ PostMetrics.threshold_crossing_rate >= 500
    /\ PostMetrics.healthy_mean_prob < 50
    /\ PostMetrics.overall_mean_prob < 50
    /\ PostMetrics.max_prob < 900
    /\ PostMetrics.failed_mean_prob > PostMetrics.healthy_mean_prob

\* C30: when a success criterion fails on the post-training metrics (also after
\* an early stop on gate saturation), the model has the weights of the backup
\* written before training, save_path is not written and retrain returns False;
\* retrain returns True, having written save_path when one is given, only when
\* all five criteria pass.
C30_RollbackUnlessAllPass ==
    Validated =>
        /\ ~AllCriteriaPass =>
              /\ result = ValueResult(FALSE)
              /\ files[BackupPath] = Some(OriginalWeights)
              /\ self.model = files[BackupPath][1]
              /\ files[SavePath] \in SaveFileChoices
        /\ result = ValueResult(FALSE) => ~AllCriteriaPass
        /\ result = ValueResult(TRUE) =>
              /\ AllCriteriaPass
              /\ request.save_path # None => files[SavePath] = Some(self.model)
              /\ request.save_path = None => files[SavePath] \in SaveFileChoices
        /\ result \in {ValueResult(TRUE), ValueResult(FALSE), ErrorResult("OSError")}

\* training stopped early on saturation after changing the model (the metrics
\* moved), the ranking criterion alone failed: the old checkpoint at save_path is
\* still there and the model is back at the backup
C30_Witness ==
    /\ Validated
    /\ locals.saturated /\ locals.epoch < self.epochs
    /\ PostMetrics # self.pre_metrics[1]
    /\ _check_success_criteria(PostMetrics).failures = <<5>>
    /\ request.save_path = Some(SavePath)
    /\ files[SavePath] = Some(-1)
    /\ self.model = OriginalWeights
    /\ result = ValueResult(FALSE)

====
